---------------------------- MODULE Spec2Model ----------------------------
(***************************************************************************)
(* Verification model of the alignment-and-retrieval engine of             *)
(* komapc/embedding-aligner: candidate retrieval, confidence               *)
(* classification, evaluation and seed-pair matrix building.               *)
(*                                                                         *)
(* Conventions.  Python sequences are 0-indexed, TLA+ sequences are        *)
(* 1-indexed: row r of a numpy array is element r+1 of the sequence that   *)
(* models it.  Similarities are integers (dot products of integer          *)
(* vectors, or hundredths for the values read from JSON).  A Python dict   *)
(* is a function whose DOMAIN is its key set.                              *)
(***************************************************************************)
EXTENDS Integers, Sequences, FiniteSets, TLC

VARIABLES
    pc,            \* position of the running function / its outcome
    epo_emb,       \* target matrix handed to find_translation_candidates
    threshold,     \* find_translation_candidates: threshold
    top_k,         \* find_translation_candidates: top_k
    batch_size,    \* find_translation_candidates: batch_size
    argsort_tie,   \* order in which this numpy build leaves equal keys
    i,             \* find_translation_candidates: batch start (1-indexed)
    candidates,    \* the candidates dict (built by retrieval, read by validation)
    alignment_matrix, \* filter_candidates: alignment_matrix
    check_mutual,  \* filter_candidates: check_mutual
    min_similarity, \* filter_candidates: min_similarity (hundredths)
    val_pos,       \* filter_candidates: number of the (ido_word, trans) iteration
    high_conf,     \* filter_candidates: high_conf
    medium_conf,   \* filter_candidates: medium_conf
    low_conf,      \* filter_candidates: low_conf
    seed_pairs,    \* the seed dictionary: (ido_word, epo_word) pairs in file order
    metrics,       \* the dict an evaluation routine returns
    char_ngrams,   \* the FastText models were trained with character n-grams
    X_pairs,       \* the source rows of the paired seed matrices
    Y_pairs,       \* the target rows of the paired seed matrices
    filtered_pairs, \* the seed pairs a filtering step keeps
    stats,         \* the counts a seed step reports
    routine,       \* the fitting routine that runs
    ido_space,     \* the source embedding matrix handed to fitting
    epo_space,     \* the target embedding matrix handed to fitting
    ido_before,    \* retrofit_embeddings: ido_aligned when the iteration started
    epo_before,    \* retrofit_embeddings: epo_aligned when the iteration started
    ido_aligned,   \* retrofit_embeddings: ido_aligned
    epo_aligned,   \* retrofit_embeddings: epo_aligned
    iterations,    \* retrofit_embeddings: iterations
    iteration,     \* retrofit_embeddings: iterations finished
    initial_sim,   \* retrofit_embeddings: initial_sim
    saved,         \* the files the run has written
    ido_wv,        \* the source model handed to a scoring function
    epo_wv,        \* the target model handed to a scoring function
    word_pair,     \* the (ido_word, epo_word) handed to a scoring function
    k_arg,         \* the k handed to a scoring function
    returned,      \* what the scoring function returned
    script,        \* the script whose main runs
    stages,        \* the stages main has gone through, in order
    files,         \* the input files present when main starts
    skip_epo_extraction, \* args.skip_epo_extraction
    sources,       \* merge_all_translations: sources
    merged         \* merge_all_translations: merged

retrieveVars == <<epo_emb, threshold, top_k, batch_size, i>>

validateVars == <<alignment_matrix, check_mutual, min_similarity, val_pos,
                  high_conf, medium_conf, low_conf>>

evaluateVars == <<seed_pairs, metrics>>

seedVars == <<char_ngrams, X_pairs, Y_pairs, filtered_pairs, stats>>

fitVars == <<routine, ido_space, epo_space, ido_before, epo_before, ido_aligned,
             epo_aligned, iterations, iteration, initial_sim, saved>>

scoreVars == <<ido_wv, epo_wv, word_pair, k_arg, returned>>

mergeVars == <<sources, merged>>

pipeVars == <<script, stages, files, skip_epo_extraction, mergeVars>>

vars == <<pc, argsort_tie, candidates, retrieveVars, validateVars, evaluateVars, seedVars,
          fitVars, scoreVars, pipeVars>>

-----------------------------------------------------------------------------
(* Bounds of the model.                                                    *)

MaxCoord == 1          \* embedding coordinates range over 0..MaxCoord
MaxTopK == 2           \* top_k ranges over 1..MaxTopK
MaxBatch == 2          \* batch_size ranges over 1..MaxBatch

-----------------------------------------------------------------------------
(* Generic helpers standing for Python / numpy primitives.                 *)

Min(a, b) == IF a <= b THEN a ELSE b

Range(s) == {s[n] : n \in 1..Len(s)}

\* s[:n]
Take(s, n) == SubSeq(s, 1, Min(n, Len(s)))

\* the sequence s with its elements evaluated once (same value as s)
AsTuple(s) == s \o <<>>

\* s[::-1]
Reverse(s) == [n \in 1..Len(s) |-> s[Len(s) + 1 - n]]

\* Spelling of the fixture terms, letters numbered a=1 .. z=26.
Spelling(w) ==
    CASE w = "hundo" -> <<8, 21, 14, 4, 15>>
      [] w = "kato"  -> <<11, 1, 20, 15>>
      [] w = "akvo"  -> <<1, 11, 22, 15>>
      [] w = "domo"  -> <<4, 15, 13, 15>>
      [] w = "kate"  -> <<11, 1, 20, 5>>
      [] w = "suno"  -> <<19, 21, 14, 15>>
      [] OTHER       -> <<>>

RECURSIVE SeqLess(_, _)
\* Python's a < b on the code-point sequences of two strings.
SeqLess(a, b) ==
    IF Len(b) = 0 THEN FALSE
    ELSE IF Len(a) = 0 THEN TRUE
    ELSE IF a[1] # b[1] THEN a[1] < b[1]
    ELSE SeqLess(Tail(a), Tail(b))

StrLess(v, w) == SeqLess(Spelling(v), Spelling(w))

RECURSIVE Dot(_, _)
\* np.dot of two vectors
Dot(u, v) == IF Len(u) = 0 THEN 0 ELSE u[1] * v[1] + Dot(Tail(u), Tail(v))

-----------------------------------------------------------------------------
(* Retrieval: find_translation_candidates of                               *)
(* 15_bert_crosslingual_alignment.py.                                      *)

\* The aligned, normalised source space handed to retrieval: one row per
\* query term.
ido_words == <<"hundo", "kato", "domo">>

ido_emb == <<<<1, 0>>, <<0, 1>>, <<1, 1>>>>

\* The target vocabulary, in row order (not alphabetical).
epo_words == <<"hundo", "akvo", "kato">>

EmbDim == Len(ido_emb[1])

Vectors == [1..EmbDim -> 0..MaxCoord]

TieOrders(n) == {p \in [1..n -> 1..n] : \A a, b \in 1..n : a # b => p[a] # p[b]}

\* similarities = np.dot(batch_ido, epo_emb.T), row j
SimilarityRow(queryVec, emb) == AsTuple([t \in 1..Len(emb) |-> Dot(queryVec, emb[t])])

RECURSIVE WhereFrom(_, _, _)
WhereFrom(sims, thr, t) ==
    IF t > Len(sims) THEN <<>>
    ELSE (IF sims[t] >= thr THEN <<t>> ELSE <<>>) \o WhereFrom(sims, thr, t + 1)

\* np.where(sims >= threshold)[0]: the indices, ascending
WhereAtLeast(sims, thr) == WhereFrom(sims, thr, 1)

\* key order used by the sort: value first, then the build's order of equal keys
KeyBefore(sims, tie, a, b) ==
    \/ sims[a] < sims[b]
    \/ sims[a] = sims[b] /\ tie[a] < tie[b]

RECURSIVE InsertSorted(_, _, _)
\* before[a][b]: key a sorts strictly before key b
InsertSorted(sorted, x, before) ==
    IF Len(sorted) = 0 THEN <<x>>
    ELSE IF before[x][sorted[1]] THEN <<x>> \o sorted
    ELSE <<sorted[1]>> \o InsertSorted(Tail(sorted), x, before)

RECURSIVE SortIndices(_, _)
SortIndices(idxs, before) ==
    IF Len(idxs) = 0 THEN <<>>
    ELSE InsertSorted(SortIndices(Tail(idxs), before), idxs[1], before)

\* above_threshold[np.argsort(sims[above_threshold])]: ascending by score
ArgsortAscending(above, sims, tie) ==
    SortIndices(above, [a \in DOMAIN sims |-> [b \in DOMAIN sims |-> KeyBefore(sims, tie, a, b)]])

\* the same selection with the [::-1] forgotten: lowest scores first
TopIndicesNotReversed(above, sims, tie, k) == Take(ArgsortAscending(above, sims, tie), k)

\* above_threshold[np.argsort(sims[above_threshold])][::-1][:top_k]
TopIndices(above, sims, tie, k) == Take(Reverse(ArgsortAscending(above, sims, tie)), k)

\* the translations list built for one query row
Translations(sims, thr, k, tie) ==
    LET top_indices == TopIndices(WhereAtLeast(sims, thr), sims, tie, k)
    IN  [n \in 1..Len(top_indices) |->
            [epo |-> epo_words[top_indices[n]], similarity |-> sims[top_indices[n]]]]

\* an assignment that replaces the whole dict by the one entry
DictSetOnly(d, key, value) == [x \in {key} |-> value]

\* dict assignment d[key] = value
DictSet(d, key, value) == [x \in DOMAIN d \cup {key} |-> IF x = key THEN value ELSE d[x]]

RECURSIVE BatchLoop(_, _, _, _, _, _, _)
\* for j, ido_word in enumerate(batch_words): rows j..batch_end of the batch
BatchLoop(cands, j, batch_end, emb, thr, k, tie) ==
    IF j > batch_end THEN cands
    ELSE LET sims == SimilarityRow(ido_emb[j], emb)
             above_threshold == WhereAtLeast(sims, thr)
             next == IF Len(above_threshold) > 0
                     THEN DictSet(cands, ido_words[j], Translations(sims, thr, k, tie))
                     ELSE cands
         IN  BatchLoop(next, j + 1, batch_end, emb, thr, k, tie)

EmptyDict == [x \in {} |-> <<>>]

\* the variables of retrieval while another function runs
RetrieveIdle ==
    /\ epo_emb = <<>>
    /\ threshold = 0
    /\ top_k = 0
    /\ batch_size = 0
    /\ i = 0

\* the variables of validation while another function runs
ValidateIdle ==
    /\ alignment_matrix = <<>>
    /\ check_mutual = TRUE
    /\ min_similarity = 0
    /\ val_pos = 0
    /\ high_conf = EmptyDict
    /\ medium_conf = EmptyDict
    /\ low_conf = EmptyDict

\* the variables of evaluation while another function runs
EvaluateIdle ==
    /\ seed_pairs = <<>>
    /\ metrics = EmptyDict

\* the variables of fitting while another function runs
FitIdle ==
    /\ routine = ""
    /\ ido_space = <<>>
    /\ epo_space = <<>>
    /\ ido_before = <<>>
    /\ epo_before = <<>>
    /\ ido_aligned = <<>>
    /\ epo_aligned = <<>>
    /\ iterations = 0
    /\ iteration = 0
    /\ initial_sim = EmptyDict
    /\ saved = {}

\* the variables of the scoring functions while another function runs
ScoreIdle ==
    /\ ido_wv = <<>>
    /\ epo_wv = <<>>
    /\ word_pair = <<>>
    /\ k_arg = 0
    /\ returned = <<>>

\* the variables of a script's main while a function is run on its own
PipeIdle ==
    /\ script = ""
    /\ stages = <<>>
    /\ files = {}
    /\ skip_epo_extraction = FALSE
    /\ sources = <<>>
    /\ merged = EmptyDict

\* what the seed steps build, before any of them has run
SeedOutputsIdle ==
    /\ X_pairs = <<>>
    /\ Y_pairs = <<>>
    /\ filtered_pairs = <<>>
    /\ stats = EmptyDict

SeedIdle ==
    /\ char_ngrams = FALSE
    /\ SeedOutputsIdle

RetrieveInit ==
    /\ FitIdle
    /\ ScoreIdle
    /\ PipeIdle
    /\ ValidateIdle
    /\ EvaluateIdle
    /\ SeedIdle
    /\ pc = "find_translation_candidates"
    /\ epo_emb \in [1..Len(epo_words) -> Vectors]
    /\ threshold \in 1..MaxCoord
    /\ top_k \in 1..MaxTopK
    /\ batch_size \in 1..MaxBatch
    /\ argsort_tie \in TieOrders(Len(epo_words))
    /\ i = 1
    /\ candidates = EmptyDict

\* One iteration of "for i in range(0, len(ido_words), batch_size)".
FindBatch ==
    /\ UNCHANGED <<fitVars, scoreVars, pipeVars>>
    /\ pc = "find_translation_candidates"
    /\ i <= Len(ido_words)
    /\ LET batch_end == Min(i + batch_size - 1, Len(ido_words))
       IN  candidates' = BatchLoop(candidates, i, batch_end, epo_emb, threshold, top_k, argsort_tie)
    /\ i' = i + batch_size
    /\ UNCHANGED <<pc, epo_emb, threshold, top_k, batch_size, argsort_tie, validateVars,
                   evaluateVars, seedVars>>

\* After the loop: the summary log lines, then "return candidates".  The
\* average total_pairs/len(candidates) divides by zero when the dict is empty.
FinishRetrieval ==
    /\ UNCHANGED <<fitVars, scoreVars, pipeVars>>
    /\ pc = "find_translation_candidates"
    /\ i > Len(ido_words)
    /\ pc' = IF Cardinality(DOMAIN candidates) = 0 THEN "ZeroDivisionError" ELSE "returned"
    /\ UNCHANGED <<argsort_tie, candidates, retrieveVars, validateVars, evaluateVars,
                   seedVars>>

RetrieveNext == FindBatch \/ FinishRetrieval

SpecRetrieve == RetrieveInit /\ [][RetrieveNext]_vars

-----------------------------------------------------------------------------
(* Claims about retrieval.                                                 *)

\* score of target row t for query row j, as the claims mean it
Score(j, t) == Dot(ido_emb[j], epo_emb[t])

QueryRow(w) == CHOOSE j \in 1..Len(ido_words) : ido_words[j] = w

TargetRow(w) == CHOOSE t \in 1..Len(epo_words) : epo_words[t] = w

\* target rows scoring at or above the threshold for query row j
Qualifying(j) == {t \in 1..Len(epo_words) : Score(j, t) >= threshold}

\* rows of the query vocabulary the loop has already handled
RowsDone == {j \in 1..Len(ido_words) : j < i}

ListOk(w) ==
    LET j == QueryRow(w)
        list == candidates[w]
        rows == {TargetRow(list[n].epo) : n \in 1..Len(list)}
    IN  /\ Len(list) >= 1 /\ Len(list) <= top_k
        /\ Len(list) = Min(top_k, Cardinality(Qualifying(j)))
        /\ \A n \in 1..Len(list) :
              /\ list[n].epo \in Range(epo_words)
              /\ list[n].similarity = Score(j, TargetRow(list[n].epo))
              /\ list[n].similarity >= threshold
        /\ Cardinality(rows) = Len(list)
        /\ \A m, n \in 1..Len(list) : m < n => list[m].similarity >= list[n].similarity
        /\ \A t \in 1..Len(epo_words) : t \notin rows =>
              \A n \in 1..Len(list) : Score(j, t) <= list[n].similarity

\* C1: every candidate list holds between 1 and top_k entries, each a target
\* term with its own score at or above the threshold, in non-increasing score
\* order, and no target left out scores strictly higher than a returned one;
\* a handled query with a qualifying target has a list.
C1_TopKAboveThreshold ==
    /\ \A w \in DOMAIN candidates : ListOk(w)
    /\ \A j \in RowsDone : Qualifying(j) # {} => ido_words[j] \in DOMAIN candidates

\* C1 witness: retrieval returned a list that was truncated to top_k and
\* holds two different scores.
C1_Witness ==
    /\ pc = "returned"
    /\ \E w \in DOMAIN candidates :
          /\ Cardinality(Qualifying(QueryRow(w))) > top_k
          /\ Len(candidates[w]) = top_k
          /\ top_k >= 2
          /\ candidates[w][1].similarity > candidates[w][2].similarity

\* C2: in every candidate list two candidates of equal score stand in
\* ascending lexicographic order of their target term.
C2_TiesLexicographic ==
    \A w \in DOMAIN candidates :
        \A m, n \in 1..Len(candidates[w]) :
            (m < n /\ candidates[w][m].similarity = candidates[w][n].similarity)
                => StrLess(candidates[w][m].epo, candidates[w][n].epo)

\* C3: a handled query term with no candidate at or above the threshold has
\* no entry, and retrieval never ends in an error, also when the mapping is
\* empty.
C3_OmittedNotAnError ==
    /\ \A j \in RowsDone : Qualifying(j) = {} => ido_words[j] \notin DOMAIN candidates
    /\ pc # "ZeroDivisionError"

-----------------------------------------------------------------------------
(* Validation: 07_validate_candidates.py.                                  *)

NumTranslations == 2   \* translations per candidate word handed to validation

HighThreshold == 70          \* similarity > 0.7
MediumThreshold == 60        \* similarity > 0.6
MinFreqRatioNum == 1         \* freq_ratio > 0.1, as the fraction 1/10
MinFreqRatioDen == 10
DefaultMinSimilarity == 50   \* min_similarity: float = 0.5
NeighbourK == 10             \* k: int = 10

\* The two FastText models: vocabulary in row order, vectors, corpus counts.
ido_model ==
    [index_to_key |-> <<"hundo", "kato", "domo", "akvo", "libro", "tablo",
                        "arboro", "floro", "urbo", "maro", "suno">>,
     vectors |-> <<<<1, 0>>, <<4, 1>>, <<3, 1>>, <<2, 1>>, <<3, 2>>, <<1, 1>>,
                   <<2, 3>>, <<1, 2>>, <<1, 3>>, <<1, 4>>, <<0, 1>>>>,
     count |-> <<10, 5, 5, 5, 5, 5, 5, 5, 5, 5, 100>>]

epo_model ==
    [index_to_key |-> epo_words,
     vectors |-> <<<<1, 0>>, <<1, 1>>, <<0, 1>>>>,
     count |-> <<100, 10, 0>>]

\* word in model.wv.key_to_index
InVocab(model, w) == w \in Range(model.index_to_key)

KeyIndex(model, w) == CHOOSE n \in 1..Len(model.index_to_key) : model.index_to_key[n] = w

\* model.wv[word]
WordVector(model, w) == model.vectors[KeyIndex(model, w)]

\* model.wv.get_vecattr(word, 'count')
get_vecattr(model, w) == model.count[KeyIndex(model, w)]

Abs(x) == IF x < 0 THEN 0 - x ELSE x

Max(a, b) == IF a >= b THEN a ELSE b

\* s[-k:]
LastK(s, k) == SubSeq(s, Max(1, Len(s) - k + 1), Len(s))

IdentityMatrix == <<<<1, 0>>, <<0, 1>>>>

\* an orthogonal matrix that is not symmetric (quarter turn)
QuarterTurn == <<<<0, -1>>, <<1, 0>>>>

\* M.T
Transpose(M) == AsTuple([c \in 1..Len(M[1]) |-> AsTuple([r \in 1..Len(M) |-> M[r][c]])])

\* (M @ v.T).T for a single row v
MatVec(M, v) == AsTuple([r \in 1..Len(M) |-> Dot(M[r], v)])

\* cosine_similarity(v, rows)[0][t] as the exact fraction sign(d)*d*d / |rows[t]|^2,
\* the common positive factor 1/|v|^2 left out; a zero row has cosine 0.
CosineKey(v, row) ==
    IF Dot(row, row) = 0 THEN [num |-> 0, den |-> 1]
    ELSE [num |-> Dot(v, row) * Abs(Dot(v, row)), den |-> Dot(row, row)]

CosineLess(a, b) == a.num * b.den < b.num * a.den

\* np.argsort(similarities): row indices, ascending by cosine
ArgsortCosine(keys, tie) ==
    SortIndices([n \in 1..Len(keys) |-> n],
                [a \in 1..Len(keys) |-> [b \in 1..Len(keys) |->
                    \/ CosineLess(keys[a], keys[b])
                    \/ (~CosineLess(keys[b], keys[a]) /\ tie[a] < tie[b])]])

check_mutual_nearest_neighbor(ido_word, epo_word, W, k, tie) ==
    IF ~InVocab(epo_model, epo_word) THEN FALSE
    ELSE LET v_epo == WordVector(epo_model, epo_word)
             v_aligned == MatVec(Transpose(W), v_epo)
             similarities == AsTuple([n \in 1..Len(ido_model.vectors) |->
                                 CosineKey(v_aligned, ido_model.vectors[n])])
             top_k_indices == Reverse(LastK(ArgsortCosine(similarities, tie), k))
             top_k_words == [n \in 1..Len(top_k_indices) |->
                                 ido_model.index_to_key[top_k_indices[n]]]
         IN  ido_word \in Range(top_k_words)

\* the ratio as an exact fraction; 0.0 when a count is zero
compute_frequency_ratio(ido_word, epo_word) ==
    LET ido_count == get_vecattr(ido_model, ido_word)
        epo_count == get_vecattr(epo_model, epo_word)
    IN  IF ido_count = 0 \/ epo_count = 0 THEN [num |-> 0, den |-> 1]
        ELSE [num |-> Min(ido_count, epo_count), den |-> Max(ido_count, epo_count)]

RECURSIVE CurrentRow(_, _, _, _)
\* the inner loop over word2: cur is current_row so far, prev is previous_row
CurrentRow(cur, prev, c1, word2) ==
    LET j == Len(cur)
    IN  IF j > Len(word2) THEN cur
        ELSE LET insertions == prev[j + 1] + 1
                 deletions == cur[j] + 1
                 substitutions == prev[j] + (IF c1 # word2[j] THEN 1 ELSE 0)
             IN  CurrentRow(Append(cur, Min(insertions, Min(deletions, substitutions))),
                            prev, c1, word2)

RECURSIVE EditRows(_, _, _, _)
\* the outer loop over word1, from its n-th letter on
EditRows(prev, word1, word2, n) ==
    IF n > Len(word1) THEN prev
    ELSE EditRows(CurrentRow(<<n>>, prev, word1[n], word2), word1, word2, n + 1)

LevenshteinOrdered(word1, word2) ==
    IF Len(word2) = 0 THEN Len(word1)
    ELSE LET last == EditRows([n \in 1..Len(word2) + 1 |-> n - 1], word1, word2, 1)
         IN  last[Len(last)]

compute_edit_distance(word1, word2) ==
    IF Len(Spelling(word1)) < Len(Spelling(word2))
    THEN LevenshteinOrdered(Spelling(word2), Spelling(word1))
    ELSE LevenshteinOrdered(Spelling(word1), Spelling(word2))

\* the skip guard with its comparison turned round
BelowMinimumInverted(similarity, minimum) == similarity > minimum

\* "if similarity < min_similarity: continue"
BelowMinimum(similarity, minimum) == similarity < minimum

\* freq_ratio > 0.1
RatioAboveMinimum(freq_ratio) == freq_ratio.num * MinFreqRatioDen > MinFreqRatioNum * freq_ratio.den

\* the classification with "or" between the two signals
TierEitherSignal(similarity, is_mutual, mutual_checked, freq_ratio) ==
    IF similarity > HighThreshold /\ ((is_mutual \/ ~mutual_checked) \/ RatioAboveMinimum(freq_ratio))
    THEN "high"
    ELSE IF similarity > MediumThreshold THEN "medium"
    ELSE "low"

\* the classification with the medium bound compared with >=
TierMediumInclusive(similarity, is_mutual, mutual_checked, freq_ratio) ==
    IF similarity > HighThreshold /\ (is_mutual \/ ~mutual_checked) /\ RatioAboveMinimum(freq_ratio)
    THEN "high"
    ELSE IF similarity >= MediumThreshold THEN "medium"
    ELSE "low"

\* the if / elif / else that picks the confidence level
Tier(similarity, is_mutual, mutual_checked, freq_ratio) ==
    IF similarity > HighThreshold /\ (is_mutual \/ ~mutual_checked) /\ RatioAboveMinimum(freq_ratio)
    THEN "high"
    ELSE IF similarity > MediumThreshold THEN "medium"
    ELSE "low"

\* "if ido_word not in conf: conf[ido_word] = []" then append
DictAppend(d, key, value) ==
    DictSet(d, key, IF key \in DOMAIN d THEN Append(d[key], value) ELSE <<value>>)

\* keys of the candidates dict in insertion order (the order of the Ido vocabulary)
KeysInOrder(d) == SelectSeq(ido_model.index_to_key, LAMBDA w : w \in DOMAIN d)

RECURSIVE ItemsFrom(_, _, _)
ItemsFrom(d, keys, n) ==
    IF n > Len(keys) THEN <<>>
    ELSE [m \in 1..Len(d[keys[n]]) |->
             [ido_word |-> keys[n], trans |-> d[keys[n]][m]]] \o ItemsFrom(d, keys, n + 1)

\* the (ido_word, trans) pairs in the order the two nested loops visit them
Iterations(d) == ItemsFrom(d, KeysInOrder(d), 1)

\* similarities in hundredths: below, at and above each threshold of the classifier
Similarities == {45, 50, 60, 70, 75}

\* orders in which a sort of n keys may leave equal keys: as found, or reversed
TieChoices(n) == {[t \in 1..n |-> t], [t \in 1..n |-> n + 1 - t]}

CandidateWords == {"hundo"}

\* translations offered to validation; "kate" is in neither vocabulary
TranslationWords == Range(epo_words) \cup {"kate"}

TranslationRecords == [translation : TranslationWords, similarity : Similarities]

ValidateInit ==
    /\ FitIdle
    /\ ScoreIdle
    /\ PipeIdle
    /\ RetrieveIdle
    /\ EvaluateIdle
    /\ SeedIdle
    /\ pc = "filter_candidates"
    /\ argsort_tie = <<>>
    /\ \E w \in CandidateWords : \E list \in [1..NumTranslations -> TranslationRecords] :
           candidates = [x \in {w} |-> list]
    /\ alignment_matrix \in {IdentityMatrix, QuarterTurn}
    /\ check_mutual \in BOOLEAN
    /\ min_similarity = DefaultMinSimilarity
    /\ val_pos = 1
    /\ high_conf = EmptyDict
    /\ medium_conf = EmptyDict
    /\ low_conf = EmptyDict

\* One pass through the body of "for trans in translations".
FilterCandidate ==
    /\ UNCHANGED <<fitVars, scoreVars, pipeVars>>
    /\ pc = "filter_candidates"
    /\ val_pos <= Len(Iterations(candidates))
    /\ \E tie \in TieChoices(Len(ido_model.vectors)) :
       LET item == Iterations(candidates)[val_pos]
           ido_word == item.ido_word
           epo_word == item.trans.translation
           similarity == item.trans.similarity
       IN  IF BelowMinimum(similarity, min_similarity)
           THEN /\ val_pos' = val_pos + 1
                /\ UNCHANGED <<pc, high_conf, medium_conf, low_conf>>
           ELSE IF ~InVocab(ido_model, ido_word) \/ ~InVocab(epo_model, epo_word)
           THEN \* get_vecattr raises KeyError in compute_frequency_ratio
                /\ pc' = "KeyError"
                /\ UNCHANGED <<val_pos, high_conf, medium_conf, low_conf>>
           ELSE LET is_mutual == IF check_mutual
                                 THEN check_mutual_nearest_neighbor(ido_word, epo_word,
                                          alignment_matrix, NeighbourK, tie)
                                 ELSE FALSE
                    freq_ratio == compute_frequency_ratio(ido_word, epo_word)
                    edit_dist == compute_edit_distance(ido_word, epo_word)
                    level == Tier(similarity, is_mutual, check_mutual, freq_ratio)
                    record == [translation |-> epo_word, similarity |-> similarity,
                               mutual_nn |-> is_mutual, freq_ratio |-> freq_ratio,
                               edit_distance |-> edit_dist]
                IN  /\ high_conf' = IF level = "high"
                                    THEN DictAppend(high_conf, ido_word, record) ELSE high_conf
                    /\ medium_conf' = IF level = "medium"
                                      THEN DictAppend(medium_conf, ido_word, record) ELSE medium_conf
                    /\ low_conf' = IF level = "low"
                                   THEN DictAppend(low_conf, ido_word, record) ELSE low_conf
                    /\ val_pos' = val_pos + 1
                    /\ pc' = pc
    /\ UNCHANGED <<argsort_tie, candidates, alignment_matrix, check_mutual, min_similarity,
                   retrieveVars, evaluateVars, seedVars>>

\* return {'high': high_conf, 'medium': medium_conf, 'low': low_conf}
FilterReturn ==
    /\ UNCHANGED <<fitVars, scoreVars, pipeVars>>
    /\ pc = "filter_candidates"
    /\ val_pos > Len(Iterations(candidates))
    /\ pc' = "returned"
    /\ UNCHANGED <<argsort_tie, candidates, retrieveVars, validateVars, evaluateVars,
                   seedVars>>

ValidateNext == FilterCandidate \/ FilterReturn

SpecValidate == ValidateInit /\ [][ValidateNext]_vars

-----------------------------------------------------------------------------
(* Claims about the confidence classifier.                                 *)

\* the records a confidence dict holds
Records(conf) == UNION {Range(conf[w]) : w \in DOMAIN conf}

Classified == Records(high_conf) \cup Records(medium_conf) \cup Records(low_conf)

\* the tier a record is in: 3 high, 2 medium, 1 low, 0 none
TierRank(r) ==
    IF \E w \in DOMAIN high_conf : r \in Range(high_conf[w]) THEN 3
    ELSE IF \E w \in DOMAIN medium_conf : r \in Range(medium_conf[w]) THEN 2
    ELSE IF \E w \in DOMAIN low_conf : r \in Range(low_conf[w]) THEN 1
    ELSE 0

\* the (ido_word, trans) iterations already behind the loop
Processed == SubSeq(Iterations(candidates), 1, val_pos - 1)

\* how often conf holds translation t with similarity s under ido word w
CountIn(conf, w, t, s) ==
    IF w \notin DOMAIN conf THEN 0
    ELSE Cardinality({n \in 1..Len(conf[w]) :
                         conf[w][n].translation = t /\ conf[w][n].similarity = s})

CountProcessed(done, w, t, s) ==
    Cardinality({n \in 1..Len(done) :
                    /\ done[n].ido_word = w
                    /\ done[n].trans.translation = t
                    /\ done[n].trans.similarity = s})

\* frequency ratio strictly above / at or above one tenth
RatioOverTenth(r) == 10 * r.freq_ratio.num > r.freq_ratio.den
RatioAtLeastTenth(r) == 10 * r.freq_ratio.num >= r.freq_ratio.den

\* C4 (amended): a classified candidate is in the high tier exactly when its
\* similarity is strictly above 0.7 AND (it is a mutual nearest neighbour or
\* the mutual check is switched off) AND its frequency ratio is strictly
\* above 0.1: both signals are required.
C4_HighNeedsBothSignals ==
    \A r \in Classified :
        (TierRank(r) = 3) <=>
            (/\ r.similarity > 70
             /\ (r.mutual_nn \/ ~check_mutual)
             /\ RatioOverTenth(r))

\* C4 as claimed: high exactly when similarity >= the high threshold AND
\* (mutual_nn OR frequency ratio >= the minimum frequency ratio).
C4_HighIfEitherSignal ==
    \A r \in Classified :
        (TierRank(r) = 3) <=>
            (r.similarity >= 70 /\ (r.mutual_nn \/ RatioAtLeastTenth(r)))

\* C4 witness: validation returned with a mutual nearest neighbour above 0.7
\* kept out of the high tier by its frequency ratio, next to a high candidate.
C4_Witness ==
    /\ pc = "returned"
    /\ check_mutual
    /\ \E r \in Records(medium_conf) : r.similarity > 70 /\ r.mutual_nn /\ ~RatioOverTenth(r)
    /\ \E r \in Records(high_conf) : r.mutual_nn

\* every candidate the loop has passed is in no tier when below
\* min_similarity and in exactly one tier otherwise
PlacedOnce ==
    LET done == AsTuple(Processed)
    IN  \A w \in DOMAIN candidates : \A t \in TranslationWords : \A s \in Similarities :
            CountIn(high_conf, w, t, s) + CountIn(medium_conf, w, t, s) + CountIn(low_conf, w, t, s)
                = IF s >= min_similarity THEN CountProcessed(done, w, t, s) ELSE 0

TiersDisjoint ==
    /\ Records(high_conf) \cap Records(medium_conf) = {}
    /\ Records(high_conf) \cap Records(low_conf) = {}
    /\ Records(medium_conf) \cap Records(low_conf) = {}

SameSignals(a, b) ==
    /\ a.mutual_nn = b.mutual_nn
    /\ a.freq_ratio = b.freq_ratio
    /\ a.edit_distance = b.edit_distance

\* the passed (ido_word, trans) iteration was put in some tier
Placed(item) ==
    \E r \in Classified :
        /\ r.translation = item.trans.translation
        /\ r.similarity = item.trans.similarity

\* C6: of two candidates with the same mutual_nn flag, frequency ratio and
\* edit distance the one with the higher similarity is never in a lower tier
\* (none < low < medium < high).
C6_Monotone ==
    /\ \A a, b \in Classified :
          (SameSignals(a, b) /\ a.similarity <= b.similarity) => TierRank(a) <= TierRank(b)
    /\ \A a, b \in Range(Processed) :
          (/\ a.ido_word = b.ido_word
           /\ a.trans.translation = b.trans.translation
           /\ a.trans.similarity <= b.trans.similarity
           /\ Placed(a)) => Placed(b)

\* C6 witness: validation returned with two candidates of equal signals and
\* different similarity in different tiers.
C6_Witness ==
    /\ pc = "returned"
    /\ \E a, b \in Classified :
          /\ SameSignals(a, b)
          /\ a.similarity < b.similarity
          /\ TierRank(a) < TierRank(b)


-----------------------------------------------------------------------------
\* Evaluation against the seed dictionary: evaluate_on_seed_dictionary
\* (find_nearest_neighbors_bert.py), evaluate_sample
\* (15_bert_crosslingual_alignment.py) and evaluate_alignment
\* (05_align_embeddings.py). A ratio count / total is kept as the fraction
\* [num |-> count, den |-> total].

NumSeedPairs == 2

\* the cut-offs of Precision@1, Precision@5 and Precision@10
PrecisionAt == <<1, 5, 10>>

\* the neighbours of a queried word, best first
EvalRanking ==
    <<"hundo", "domo", "libro", "tablo", "akvo", "kato", "arbo", "floro", "urbo", "maro",
      "suno">>

\* the first n neighbours with their scores, as the retrieval routines store them
NeighbourList(n) == [r \in 1..n |-> [epo |-> EvalRanking[r], similarity |-> 100 - r]]

\* source terms of the seed dictionary; "domo" is never queried
SeedSources == {"hundo", "kato", "domo"}

\* expected targets: at ranks 1, 5, 6, 10 and 11 of EvalRanking, and one never predicted
SeedTargets == {"hundo", "akvo", "kato", "maro", "suno", "kate"}

\* count / total if total > 0 else 0
Ratio(count, total) ==
    IF total > 0 THEN [num |-> count, den |-> total] ELSE [num |-> 0, den |-> 1]

\* s.index(x) + 1
IndexOf(s, x) == CHOOSE n \in 1..Len(s) : s[n] = x /\ \A m \in 1..(n - 1) : s[m] # x

EmptySeedDict == [keys |-> <<>>, get |-> EmptyDict]

RECURSIVE load_seed_dictionary(_, _, _)
\* the dict of find_nearest_neighbors_bert.py after lines n..: its keys in insertion
\* order and the list of Esperanto words of each key
load_seed_dictionary(lines, n, seed_dict) ==
    IF n > Len(lines) THEN seed_dict
    ELSE LET ido == lines[n][1]
             epo == lines[n][2]
         IN  load_seed_dictionary(lines, n + 1,
                 [keys |-> IF ido \in DOMAIN seed_dict.get THEN seed_dict.keys
                           ELSE Append(seed_dict.keys, ido),
                  get  |-> DictAppend(seed_dict.get, ido, epo)])

RECURSIVE FoundAt(_, _, _)
\* for expected in expected_epo: if expected in predicted_words: found_at = ...; break
\* (0 stands for None)
FoundAt(expected_epo, predicted_words, n) ==
    IF n > Len(expected_epo) THEN 0
    ELSE IF expected_epo[n] \in Range(predicted_words)
         THEN IndexOf(predicted_words, expected_epo[n])
         ELSE FoundAt(expected_epo, predicted_words, n + 1)

WithinTopInverted(found_at, k) == found_at >= k

\* found_at <= k
WithinTop(found_at, k) == found_at <= k

\* [word for word, _ in neighbors]
PredictedWords(neighbors) == [m \in 1..Len(neighbors) |-> neighbors[m].epo]

RECURSIVE SeedDictLoop(_, _, _, _)
\* for ido_word, expected_epo in seed_dict.items(): from the n-th key on
SeedDictLoop(nearest_neighbors, seed_dict, n, acc) ==
    IF n > Len(seed_dict.keys) THEN acc
    ELSE LET ido_word == seed_dict.keys[n]
         IN  IF ido_word \notin DOMAIN nearest_neighbors
             THEN SeedDictLoop(nearest_neighbors, seed_dict, n + 1, acc)
             ELSE LET predicted_words == PredictedWords(nearest_neighbors[ido_word])
                      found_at == FoundAt(seed_dict.get[ido_word], predicted_words, 1)
                      found == found_at # 0
                  IN  SeedDictLoop(nearest_neighbors, seed_dict, n + 1,
                          [evaluated |-> acc.evaluated + 1,
                           p1_count  |-> acc.p1_count +
                               (IF found /\ found_at = PrecisionAt[1] THEN 1 ELSE 0),
                           p5_count  |-> acc.p5_count +
                               (IF found /\ WithinTop(found_at, PrecisionAt[2]) THEN 1 ELSE 0),
                           p10_count |-> acc.p10_count +
                               (IF found /\ WithinTop(found_at, PrecisionAt[3]) THEN 1 ELSE 0),
                           reciprocal_ranks |-> Append(acc.reciprocal_ranks,
                               IF found THEN [num |-> 1, den |-> found_at]
                               ELSE [num |-> 0, den |-> 1])])

RECURSIVE FractionSum(_, _)
\* the sum of the fractions n.. of a list, not reduced
FractionSum(fs, n) ==
    IF n > Len(fs) THEN [num |-> 0, den |-> 1]
    ELSE LET rest == FractionSum(fs, n + 1)
         IN  [num |-> fs[n].num * rest.den + rest.num * fs[n].den,
              den |-> fs[n].den * rest.den]

\* np.mean(fs) if fs else 0.0
Mean(fs) ==
    IF Len(fs) = 0 THEN [num |-> 0, den |-> 1]
    ELSE [num |-> FractionSum(fs, 1).num, den |-> FractionSum(fs, 1).den * Len(fs)]

evaluate_on_seed_dictionary(nearest_neighbors, seed_dict) ==
    LET acc == SeedDictLoop(nearest_neighbors, seed_dict, 1,
                   [evaluated |-> 0, p1_count |-> 0, p5_count |-> 0, p10_count |-> 0,
                    reciprocal_ranks |-> <<>>])
    IN  [evaluated_pairs |-> acc.evaluated,
         p_at_1  |-> Ratio(acc.p1_count, acc.evaluated),
         p_at_5  |-> Ratio(acc.p5_count, acc.evaluated),
         p_at_10 |-> Ratio(acc.p10_count, acc.evaluated),
         mrr     |-> Mean(acc.reciprocal_ranks)]

RECURSIVE SeedPairLoop(_, _, _, _)
\* for ido_word, expected_epo in seed_pairs: from the n-th pair on
SeedPairLoop(cands, pairs, n, acc) ==
    IF n > Len(pairs) THEN acc
    ELSE LET ido_word == pairs[n][1]
             expected_epo == pairs[n][2]
         IN  IF ido_word \notin DOMAIN cands
             THEN SeedPairLoop(cands, pairs, n + 1, acc)
             ELSE LET predictions == PredictedWords(cands[ido_word])
                      Hit(k) == IF expected_epo \in Range(Take(predictions, k)) THEN 1 ELSE 0
                  IN  SeedPairLoop(cands, pairs, n + 1,
                          [total         |-> acc.total + 1,
                           correct_at_1  |-> acc.correct_at_1 + Hit(PrecisionAt[1]),
                           correct_at_5  |-> acc.correct_at_5 + Hit(PrecisionAt[2]),
                           correct_at_10 |-> acc.correct_at_10 + Hit(PrecisionAt[3])])

evaluate_sample(cands, pairs) ==
    LET acc == SeedPairLoop(cands, pairs, 1,
                   [total |-> 0, correct_at_1 |-> 0, correct_at_5 |-> 0, correct_at_10 |-> 0])
    IN  [p_at_1  |-> Ratio(acc.correct_at_1, acc.total),
         p_at_5  |-> Ratio(acc.correct_at_5, acc.total),
         p_at_10 |-> Ratio(acc.correct_at_10, acc.total),
         total   |-> acc.total]

\* a loaded FastText model: the fixture with the n-gram setting it was trained with
FastTextModel(model, ngrams) ==
    [index_to_key |-> model.index_to_key, vectors |-> model.vectors,
     count |-> model.count, char_ngrams |-> ngrams]

\* word in model.wv: FastTextKeyedVectors.__contains__ looks the word up in
\* key_to_index only when the model has no n-gram buckets, and is True otherwise
Contains(model, w) == IF model.char_ngrams THEN TRUE ELSE InVocab(model, w)

\* the vector FastText composes from the character n-grams of an unseen word
NgramVector == <<1, 1>>

\* model.wv[word] of a model for which word in model.wv holds
GetVector(model, w) == IF InVocab(model, w) THEN WordVector(model, w) ELSE NgramVector

\* if ido_word in ido_model.wv and epo_word in epo_model.wv
BothInVocabulary(pair, im, em) == Contains(im, pair[1]) /\ Contains(em, pair[2])

RECURSIVE ExtractLoop(_, _, _, _, _)
\* for ido_word, epo_word in pairs: from the n-th pair on
ExtractLoop(pairs, im, em, n, acc) ==
    IF n > Len(pairs) THEN acc
    ELSE IF BothInVocabulary(pairs[n], im, em)
         THEN ExtractLoop(pairs, im, em, n + 1,
                  [X_ido |-> Append(acc.X_ido, GetVector(im, pairs[n][1])),
                   X_epo |-> Append(acc.X_epo, GetVector(em, pairs[n][2]))])
         ELSE ExtractLoop(pairs, im, em, n + 1, acc)

extract_embedding_matrices(pairs, im, em) ==
    ExtractLoop(pairs, im, em, 1, [X_ido |-> <<>>, X_epo |-> <<>>])

\* rank = np.sum(sims > sims[i]) with sims = cosine_similarity(X_aligned, X_tgt)[i]
\* and X_aligned = (W @ X_src.T).T
CorrectRank(W, X_src, X_tgt, r) ==
    LET aligned == MatVec(W, X_src[r])
        sims == AsTuple([t \in 1..Len(X_tgt) |-> CosineKey(aligned, X_tgt[t])])
    IN  Cardinality({t \in 1..Len(X_tgt) : CosineLess(sims[r], sims[t])})

\* np.mean of a list of booleans
MeanOfFlags(flags) ==
    [num |-> Cardinality({n \in 1..Len(flags) : flags[n]}), den |-> Len(flags)]

\* the precision entries and num_pairs of the metrics; called with one row per pair
\* (mean_similarity and median_similarity are floating-point summaries left out)
evaluate_alignment(W, X_src, X_tgt, pairs) ==
    LET n_pairs == Len(pairs)
        correct_ranks == AsTuple([r \in 1..n_pairs |-> CorrectRank(W, X_src, X_tgt, r)])
    IN  [precision_at_1  |-> MeanOfFlags([r \in 1..n_pairs |-> correct_ranks[r] = 0]),
         precision_at_5  |-> MeanOfFlags([r \in 1..n_pairs |->
                                 correct_ranks[r] < PrecisionAt[2]]),
         precision_at_10 |-> MeanOfFlags([r \in 1..n_pairs |->
                                 correct_ranks[r] < PrecisionAt[3]]),
         num_pairs       |-> n_pairs]

\* retrieval results handed to evaluation: both words queried with eleven
\* neighbours each, or "kato" alone with five
QueriedResults ==
    {[w \in {"hundo", "kato"} |-> NeighbourList(Len(EvalRanking))],
     [w \in {"kato"} |-> NeighbourList(PrecisionAt[2])]}

SeedLists == UNION {[1..n -> SeedSources \X SeedTargets] : n \in 0..NumSeedPairs}

EvaluateInit ==
    /\ FitIdle
    /\ ScoreIdle
    /\ PipeIdle
    /\ RetrieveIdle
    /\ ValidateIdle
    /\ SeedOutputsIdle
    /\ char_ngrams \in BOOLEAN
    /\ pc = "evaluate"
    /\ argsort_tie = <<>>
    /\ candidates \in QueriedResults
    /\ seed_pairs \in SeedLists
    /\ metrics = EmptyDict

\* find_nearest_neighbors_bert.py main: load_seed_dictionary, evaluate_on_seed_dictionary
EvaluateOnSeedDictionary ==
    /\ UNCHANGED <<fitVars, scoreVars, pipeVars>>
    /\ pc = "evaluate"
    /\ metrics' = evaluate_on_seed_dictionary(candidates,
                      load_seed_dictionary(seed_pairs, 1, EmptySeedDict))
    /\ pc' = "returned"
    /\ UNCHANGED <<argsort_tie, candidates, retrieveVars, validateVars, seed_pairs, seedVars>>

\* 15_bert_crosslingual_alignment.py main: evaluate_sample(candidates, seed_pairs)
EvaluateSample ==
    /\ UNCHANGED <<fitVars, scoreVars, pipeVars>>
    /\ pc = "evaluate"
    /\ metrics' = evaluate_sample(candidates, seed_pairs)
    /\ pc' = "returned"
    /\ UNCHANGED <<argsort_tie, candidates, retrieveVars, validateVars, seed_pairs, seedVars>>

\* 05_align_embeddings.py main: extract_embedding_matrices, learn_procrustes_alignment
\* (scipy raises ValueError on the empty arrays; otherwise W is some orthogonal
\* matrix), evaluate_alignment (similarities[i] raises IndexError past the last row)
EvaluateAlignment ==
    /\ UNCHANGED <<fitVars, scoreVars, pipeVars>>
    /\ pc = "evaluate"
    /\ LET m == extract_embedding_matrices(seed_pairs,
                                            FastTextModel(ido_model, char_ngrams),
                                            FastTextModel(epo_model, char_ngrams))
       IN  IF Len(m.X_ido) = 0
           THEN /\ pc' = "ValueError"
                /\ UNCHANGED <<alignment_matrix, metrics>>
           ELSE \E W \in {IdentityMatrix, QuarterTurn} :
                    /\ alignment_matrix' = W
                    /\ IF Len(m.X_ido) < Len(seed_pairs)
                       THEN /\ pc' = "IndexError"
                            /\ UNCHANGED metrics
                       ELSE /\ pc' = "returned"
                            /\ metrics' = evaluate_alignment(W, m.X_ido, m.X_epo, seed_pairs)
    /\ UNCHANGED <<argsort_tie, candidates, retrieveVars, check_mutual, min_similarity,
                   val_pos, high_conf, medium_conf, low_conf, seed_pairs, seedVars>>

EvaluateNext == EvaluateOnSeedDictionary \/ EvaluateSample \/ EvaluateAlignment

SpecEvaluate == EvaluateInit /\ [][EvaluateNext]_vars

-----------------------------------------------------------------------------
\* Claims about evaluation (SpecEvaluate)

\* a / b <= c / d for fractions with positive denominators
FractionLeq(a, b) == a.num * b.den <= b.num * a.den

FractionEq(a, b) == a.num * b.den = b.num * a.den

\* Precision@1, Precision@5 and Precision@10 of the returned metrics
ReportedPrecision ==
    IF "precision_at_1" \in DOMAIN metrics
    THEN <<metrics.precision_at_1, metrics.precision_at_5, metrics.precision_at_10>>
    ELSE <<metrics.p_at_1, metrics.p_at_5, metrics.p_at_10>>

\* C7: whenever one of the three evaluation routines returns its metrics,
\* Precision@1 <= Precision@5 <= Precision@10 and each of them lies in [0, 1].
C7_PrecisionMonotone ==
    pc = "returned" =>
        LET p == ReportedPrecision
        IN  /\ FractionLeq(p[1], p[2])
            /\ FractionLeq(p[2], p[3])
            /\ \A k \in 1..3 : p[k].den > 0 /\ 0 <= p[k].num /\ p[k].num <= p[k].den

\* evaluate_on_seed_dictionary has returned three different precisions
C7_Witness ==
    /\ pc = "returned"
    /\ "mrr" \in DOMAIN metrics
    /\ ~FractionLeq(metrics.p_at_5, metrics.p_at_1)
    /\ ~FractionLeq(metrics.p_at_10, metrics.p_at_5)
    /\ metrics.evaluated_pairs = NumSeedPairs

\* the seed pairs whose source term was queried, by position
QueriedPairs == SelectSeq([n \in 1..Len(seed_pairs) |-> n],
                          LAMBDA n : seed_pairs[n][1] \in DOMAIN candidates)

\* the 1-indexed rank of the expected target of the n-th seed pair in the candidate
\* list of its source term, 0 when it is absent
PairRank(n) ==
    LET list == candidates[seed_pairs[n][1]]
        at == {r \in 1..Len(list) : list[r].epo = seed_pairs[n][2]}
    IN  IF at = {} THEN 0 ELSE CHOOSE r \in at : \A q \in at : r <= q

PairReciprocalRanks ==
    [m \in 1..Len(QueriedPairs) |->
        IF PairRank(QueriedPairs[m]) = 0 THEN [num |-> 0, den |-> 1]
        ELSE [num |-> 1, den |-> PairRank(QueriedPairs[m])]]

PairsWithin(k) == Cardinality({m \in 1..Len(QueriedPairs) : PairRank(QueriedPairs[m]) \in 1..k})

\* C8: evaluate_on_seed_dictionary and evaluate_sample count one evaluated item per
\* seed pair whose source term was queried, Precision@k is the number of those pairs
\* whose expected target has 1-indexed rank <= k divided by the number of evaluated
\* pairs, and MRR is the mean over those pairs of 1/rank, 0 for an absent target.
C8_PerPairMetrics ==
    (pc = "returned" /\ "p_at_1" \in DOMAIN metrics) =>
        /\ (IF "mrr" \in DOMAIN metrics THEN metrics.evaluated_pairs ELSE metrics.total)
               = Len(QueriedPairs)
        /\ \A k \in 1..3 :
               FractionEq(ReportedPrecision[k],
                          Ratio(PairsWithin(PrecisionAt[k]), Len(QueriedPairs)))
        /\ "mrr" \in DOMAIN metrics => FractionEq(metrics.mrr, Mean(PairReciprocalRanks))

-----------------------------------------------------------------------------
\* Seed steps: the routines that turn the raw seed pairs into the pairs or the
\* paired matrices alignment is fitted on: extract_embedding_matrices
\* (05_align_embeddings.py), filter_pairs_by_vocabulary (04_extract_seed_dict.py),
\* load_seed_dictionary (align_bert_with_esperanto.py) and the head of
\* align_embeddings_procrustes (15_bert_crosslingual_alignment.py).

DefaultMinFreq == 5

\* str.lower() on the words of the fixture
Lower(w) == IF w = "Hundo" THEN "hundo" ELSE w

\* source words of the raw seed pairs: "kate" is in no vocabulary, "Hundo" only
\* once lowercased
RawSources == {"hundo", "kato", "kate", "Hundo"}

\* target words of the raw seed pairs: "kato" has count 0 in the Esperanto model
RawTargets == {"hundo", "kato", "kate"}

RawSeedLists == UNION {[1..n -> RawSources \X RawTargets] : n \in 0..NumSeedPairs}

RECURSIVE FilterLoop(_, _, _, _, _, _)
\* for ido_word, epo_word in pairs: from the n-th pair on; get_vecattr raises
\* KeyError for a word that is not in key_to_index
FilterLoop(pairs, im, em, min_freq, n, filtered) ==
    IF n > Len(pairs) THEN [raised |-> FALSE, filtered |-> filtered]
    ELSE LET ido_word == pairs[n][1]
             epo_word == pairs[n][2]
         IN  IF ~Contains(im, ido_word) \/ ~Contains(em, epo_word)
             THEN FilterLoop(pairs, im, em, min_freq, n + 1, filtered)
             ELSE IF ~InVocab(im, ido_word) \/ ~InVocab(em, epo_word)
             THEN [raised |-> TRUE, filtered |-> filtered]
             ELSE IF get_vecattr(im, ido_word) < min_freq \/ get_vecattr(em, epo_word) < min_freq
             THEN FilterLoop(pairs, im, em, min_freq, n + 1, filtered)
             ELSE FilterLoop(pairs, im, em, min_freq, n + 1, Append(filtered, pairs[n]))

filter_pairs_by_vocabulary(pairs, im, em, min_freq) ==
    FilterLoop(pairs, im, em, min_freq, 1, <<>>)

RECURSIVE LoadLoop(_, _, _, _)
\* for line in f: from the n-th line on, every line holding two words;
\* ido_vocab and epo_vocab are the key sets of the two vocabularies
LoadLoop(lines, ido_vocab, epo_vocab, n) ==
    IF n > Len(lines) THEN [seed_pairs |-> <<>>, skipped |-> 0]
    ELSE LET ido_word == Lower(lines[n][1])
             epo_word == Lower(lines[n][2])
             rest == LoadLoop(lines, ido_vocab, epo_vocab, n + 1)
         IN  IF ido_word \in ido_vocab /\ epo_word \in epo_vocab
             THEN [seed_pairs |-> <<<<ido_word, epo_word>>>> \o rest.seed_pairs,
                   skipped |-> rest.skipped]
             ELSE [seed_pairs |-> rest.seed_pairs, skipped |-> rest.skipped + 1]

RECURSIVE PairLoop(_, _, _)
\* for ido_word, epo_word in seed_pairs: from the n-th pair on; ido_idx and epo_idx
\* are dicts from word to row
PairLoop(pairs, n, acc) ==
    IF n > Len(pairs) THEN acc
    ELSE IF InVocab(ido_model, pairs[n][1]) /\ InVocab(epo_model, pairs[n][2])
         THEN PairLoop(pairs, n + 1,
                  [X_pairs |-> Append(acc.X_pairs, WordVector(ido_model, pairs[n][1])),
                   Y_pairs |-> Append(acc.Y_pairs, WordVector(epo_model, pairs[n][2]))])
         ELSE PairLoop(pairs, n + 1, acc)

SeedInit ==
    /\ FitIdle
    /\ ScoreIdle
    /\ PipeIdle
    /\ RetrieveIdle
    /\ ValidateIdle
    /\ SeedOutputsIdle
    /\ pc = "seed"
    /\ argsort_tie = <<>>
    /\ candidates = EmptyDict
    /\ metrics = EmptyDict
    /\ seed_pairs \in RawSeedLists
    /\ char_ngrams \in BOOLEAN

\* 05_align_embeddings.py main: the pairs loaded (their number is logged), then
\* extract_embedding_matrices (the matrix shapes are logged)
ExtractEmbeddingMatrices ==
    /\ UNCHANGED <<fitVars, scoreVars, pipeVars>>
    /\ pc = "seed"
    /\ LET m == extract_embedding_matrices(seed_pairs,
                                            FastTextModel(ido_model, char_ngrams),
                                            FastTextModel(epo_model, char_ngrams))
       IN  /\ X_pairs' = m.X_ido
           /\ Y_pairs' = m.X_epo
           /\ stats' = [total_pairs |-> Len(seed_pairs), usable_pairs |-> Len(m.X_ido)]
    /\ pc' = "extracted"
    /\ UNCHANGED <<argsort_tie, candidates, retrieveVars, validateVars, evaluateVars,
                   char_ngrams, filtered_pairs>>

\* 04_extract_seed_dict.py main: filter_pairs_by_vocabulary, then compute_statistics
\* (original_pairs and filtered_pairs)
FilterPairsByVocabulary ==
    /\ UNCHANGED <<fitVars, scoreVars, pipeVars>>
    /\ pc = "seed"
    /\ LET r == filter_pairs_by_vocabulary(seed_pairs,
                                            FastTextModel(ido_model, char_ngrams),
                                            FastTextModel(epo_model, char_ngrams),
                                            DefaultMinFreq)
       IN  IF r.raised
           THEN /\ pc' = "KeyError"
                /\ UNCHANGED <<filtered_pairs, stats>>
           ELSE /\ pc' = "filtered"
                /\ filtered_pairs' = r.filtered
                /\ stats' = [total_pairs |-> Len(seed_pairs),
                             usable_pairs |-> Len(r.filtered)]
    /\ UNCHANGED <<argsort_tie, candidates, retrieveVars, validateVars, evaluateVars,
                   char_ngrams, X_pairs, Y_pairs>>

\* align_bert_with_esperanto.py load_seed_dictionary: the pairs kept, and the log
\* line with their number and the number skipped
LoadSeedDictionary ==
    /\ UNCHANGED <<fitVars, scoreVars, pipeVars>>
    /\ pc = "seed"
    /\ LET r == LoadLoop(seed_pairs, Range(ido_model.index_to_key),
                         Range(epo_model.index_to_key), 1)
       IN  /\ filtered_pairs' = r.seed_pairs
           /\ stats' = [usable_pairs |-> Len(r.seed_pairs), skipped |-> r.skipped]
    /\ pc' = "loaded"
    /\ UNCHANGED <<argsort_tie, candidates, retrieveVars, validateVars, evaluateVars,
                   char_ngrams, X_pairs, Y_pairs>>

\* align_embeddings_procrustes up to the two shapes logged: the number of seed
\* pairs is logged, then the paired matrices are built
BuildPairedMatrices ==
    /\ UNCHANGED <<fitVars, scoreVars, pipeVars>>
    /\ pc = "seed"
    /\ LET m == PairLoop(seed_pairs, 1, [X_pairs |-> <<>>, Y_pairs |-> <<>>])
       IN  /\ X_pairs' = m.X_pairs
           /\ Y_pairs' = m.Y_pairs
           /\ stats' = [total_pairs |-> Len(seed_pairs), usable_pairs |-> Len(m.X_pairs)]
    /\ pc' = "procrustes"
    /\ UNCHANGED <<argsort_tie, candidates, retrieveVars, validateVars, evaluateVars,
                   char_ngrams, filtered_pairs>>

\* the rows [ido_idx[w] for w, _ in seed_pairs if w in ido_idx]
SourceRows == SelectSeq(seed_pairs, LAMBDA pair : InVocab(ido_model, pair[1]))

\* the rows [epo_idx[w] for _, w in seed_pairs if w in epo_idx]
TargetRows == SelectSeq(seed_pairs, LAMBDA pair : InVocab(epo_model, pair[2]))

\* the rest of align_embeddings_procrustes: orthogonal_procrustes raises ValueError
\* on empty matrices and gives some orthogonal W otherwise; the diagnostic loop
\* reads Y_normalized[i] for every row of X_aligned
ProcrustesAndDiagnostics ==
    /\ UNCHANGED <<fitVars, scoreVars, pipeVars>>
    /\ pc = "procrustes"
    /\ IF Len(X_pairs) = 0
       THEN /\ pc' = "ValueError"
            /\ UNCHANGED alignment_matrix
       ELSE /\ alignment_matrix' \in {IdentityMatrix, QuarterTurn}
            /\ pc' = IF Len(SourceRows) > Len(TargetRows) THEN "IndexError" ELSE "returned"
    /\ UNCHANGED <<argsort_tie, candidates, retrieveVars, check_mutual, min_similarity,
                   val_pos, high_conf, medium_conf, low_conf, evaluateVars, seedVars>>

SeedNext ==
    \/ ExtractEmbeddingMatrices
    \/ FilterPairsByVocabulary
    \/ LoadSeedDictionary
    \/ BuildPairedMatrices
    \/ ProcrustesAndDiagnostics

SpecSeed == SeedInit /\ [][SeedNext]_vars

-----------------------------------------------------------------------------
\* Claims about the seed steps (SpecSeed)

\* both terms of the pair are in their vocabularies
UsablePair(pair) == InVocab(ido_model, pair[1]) /\ InVocab(epo_model, pair[2])

\* ... and both were seen at least DefaultMinFreq times
FrequentPair(pair) ==
    /\ UsablePair(pair)
    /\ get_vecattr(ido_model, pair[1]) >= DefaultMinFreq
    /\ get_vecattr(epo_model, pair[2]) >= DefaultMinFreq

UsablePairs == SelectSeq(seed_pairs, UsablePair)

\* C9: building the paired seed matrices never raises for a pair with a missing
\* term; X and Y hold the rows of exactly the pairs with both terms in their
\* vocabularies, in the order supplied, and have the same number of rows; the
\* frequency filter keeps exactly the pairs whose two terms are in their
\* vocabularies with counts at or above the threshold, in the order supplied.
C9_ExactlyUsablePairs ==
    /\ pc # "KeyError"
    /\ pc \in {"extracted", "procrustes"} =>
           /\ Len(X_pairs) = Len(Y_pairs)
           /\ X_pairs = [n \in 1..Len(UsablePairs) |-> WordVector(ido_model, UsablePairs[n][1])]
           /\ Y_pairs = [n \in 1..Len(UsablePairs) |-> WordVector(epo_model, UsablePairs[n][2])]
    /\ pc = "filtered" => filtered_pairs = SelectSeq(seed_pairs, FrequentPair)

\* the number of seed pairs the step that has run left out of its output
Dropped ==
    Len(seed_pairs) - (IF pc = "loaded" THEN Len(filtered_pairs) ELSE Len(X_pairs))

\* C10: a step that drops seed pairs reports total_pairs, usable_pairs and skipped
\* with usable_pairs + skipped = total_pairs, total_pairs the number of raw pairs
\* supplied and skipped the number of pairs dropped.
C10_CountsReported ==
    pc \in {"extracted", "loaded", "procrustes"} =>
        /\ {"total_pairs", "usable_pairs", "skipped"} \subseteq DOMAIN stats
        /\ stats.total_pairs = Len(seed_pairs)
        /\ stats.skipped = Dropped
        /\ stats.usable_pairs + stats.skipped = stats.total_pairs

-----------------------------------------------------------------------------
\* Alignment fitting: retrofit_embeddings and main of align_bert_with_esperanto.py,
\* main of 05_align_embeddings.py and align_embeddings_procrustes of
\* 15_bert_crosslingual_alignment.py. A coordinate x is kept as the integer
\* x * Unit; the rows of the fixture lie on the first axis, so that the norm of
\* every row the updates produce is an integer.

MaxIterations == 2

\* alpha = 0.5
AlphaNum == 1

AlphaDen == 2

\* one iteration halves a coordinate at most 2 * NumSeedPairs times
Unit == 2 ^ (2 * NumSeedPairs)

\* ido_vocab and epo_vocab of the fitted spaces
FitIdoVocab == <<"hundo", "kato">>

FitEpoVocab == <<"hundo", "kato">>

\* a matrix with one row per first coordinate, padded with zeros to dim columns
Space(firsts, dim) ==
    AsTuple([r \in 1..Len(firsts) |->
                AsTuple([k \in 1..dim |-> IF k = 1 THEN firsts[r] * Unit ELSE 0])])

SourceSpaces == {Space(<<3, 1>>, 2), Space(<<1, -1>>, 2)}

TargetSpaces == {Space(<<-1, 1>>, d) : d \in {2, 3}} \cup {Space(<<1, 3>>, d) : d \in {2, 3}}

\* seed pairs handed to fitting; "kate" is in no vocabulary
FitSeedLists ==
    UNION {[1..n -> {"hundo", "kato", "kate"} \X {"hundo", "kato"}] : n \in 0..NumSeedPairs}

\* if ido_word in ido_idx and epo_word in epo_idx
InBothIdx(pair) == pair[1] \in Range(FitIdoVocab) /\ pair[2] \in Range(FitEpoVocab)

\* ido_idx[ido_word]
IdoRow(pair) == IndexOf(FitIdoVocab, pair[1])

\* epo_idx[epo_word]
EpoRow(pair) == IndexOf(FitEpoVocab, pair[2])

\* the pairs compute_seed_similarity takes a dot product of
SimilarityPairs(pairs) == SelectSeq(pairs, InBothIdx)

RECURSIVE SumDots(_, _, _, _)
SumDots(ido, epo, pairs, n) ==
    IF n > Len(pairs) THEN 0
    ELSE Dot(ido[IdoRow(pairs[n])], epo[EpoRow(pairs[n])]) + SumDots(ido, epo, pairs, n + 1)

\* compute_seed_similarity with a mean that is a numpy float for an empty list too
compute_seed_similarity_numpy(ido, epo, pairs) ==
    LET used == SimilarityPairs(pairs)
    IN  IF Len(used) = 0 THEN [raised |-> FALSE, python_zero |-> FALSE, sum |-> 0, n |-> 0]
        ELSE IF Len(ido[1]) # Len(epo[1])
        THEN [raised |-> TRUE, python_zero |-> FALSE, sum |-> 0, n |-> 0]
        ELSE [raised |-> FALSE, python_zero |-> FALSE,
              sum |-> SumDots(ido, epo, used, 1), n |-> Len(used)]

\* compute_seed_similarity: np.dot raises ValueError for rows of different length;
\* the mean is the Python float 0.0 when no pair is in both vocabularies and a numpy
\* float otherwise
compute_seed_similarity(ido, epo, pairs) ==
    LET used == SimilarityPairs(pairs)
    IN  IF Len(used) = 0 THEN [raised |-> FALSE, python_zero |-> TRUE, sum |-> 0, n |-> 0]
        ELSE IF Len(ido[1]) # Len(epo[1])
        THEN [raised |-> TRUE, python_zero |-> FALSE, sum |-> 0, n |-> 0]
        ELSE [raised |-> FALSE, python_zero |-> FALSE,
              sum |-> SumDots(ido, epo, used, 1), n |-> Len(used)]

\* (1 - alpha) * x + alpha * y
Blend(x, y) ==
    AsTuple([k \in 1..Len(x) |-> ((AlphaDen - AlphaNum) * x[k] + AlphaNum * y[k]) \div AlphaDen])

SetRow(matrix, r, row) == [matrix EXCEPT ![r] = row]

RECURSIVE UpdateIdo(_, _, _, _)
\* lines 131-137: the loop that updates the Ido rows, from the n-th pair on
UpdateIdo(ido, epo, pairs, n) ==
    IF n > Len(pairs) THEN ido
    ELSE IF InBothIdx(pairs[n])
         THEN UpdateIdo(SetRow(ido, IdoRow(pairs[n]),
                               Blend(ido[IdoRow(pairs[n])], epo[EpoRow(pairs[n])])),
                        epo, pairs, n + 1)
         ELSE UpdateIdo(ido, epo, pairs, n + 1)

RECURSIVE UpdateEpo(_, _, _, _)
\* lines 140-146: the loop that updates the Esperanto rows, from the n-th pair on
UpdateEpo(ido, epo, pairs, n) ==
    IF n > Len(pairs) THEN epo
    ELSE IF InBothIdx(pairs[n])
         THEN UpdateEpo(ido,
                        SetRow(epo, EpoRow(pairs[n]),
                               Blend(epo[EpoRow(pairs[n])], ido[IdoRow(pairs[n])])),
                        pairs, n + 1)
         ELSE UpdateEpo(ido, epo, pairs, n + 1)

\* both loops reading the rows of the start of the iteration
UpdatePassesFromStart(ido, epo, pairs) ==
    <<UpdateIdo(ido, epo, pairs, 1), UpdateEpo(ido, epo, pairs, 1)>>

\* both loops left after their first usable pair
UpdatePassesFirstPair(ido, epo, pairs) ==
    LET first == Take(SimilarityPairs(pairs), 1)
        ido_updated == UpdateIdo(ido, epo, first, 1)
    IN  <<ido_updated, UpdateEpo(ido_updated, epo, first, 1)>>

\* lines 130-146: the Ido loop, then the Esperanto loop on the updated Ido rows
UpdatePasses(ido, epo, pairs) ==
    LET ido_updated == UpdateIdo(ido, epo, pairs, 1)
    IN  <<ido_updated, UpdateEpo(ido_updated, epo, pairs, 1)>>

\* np.linalg.norm of a row whose norm is an integer
Norm(row) ==
    LET bound == Dot(row, [k \in 1..Len(row) |-> IF row[k] < 0 THEN -1 ELSE 1])
    IN  CHOOSE n \in 0..bound : n * n = Dot(row, row)

\* matrix / (np.linalg.norm(matrix, axis=1, keepdims=True) + 1e-8), the 1e-8 left out
\* for a row that is not zero
Normalize(matrix) ==
    AsTuple([r \in 1..Len(matrix) |->
        IF Dot(matrix[r], matrix[r]) = 0 THEN matrix[r]
        ELSE LET norm == Norm(matrix[r])
             IN  AsTuple([k \in 1..Len(matrix[r]) |-> (matrix[r][k] * Unit) \div norm])])

\* the files main of align_bert_with_esperanto.py writes
RetrofitFiles ==
    {"bert_candidates.json", "ido_bert_aligned.npy", "epo_w2v_aligned.npy",
     "bert_alignment_stats.json"}

\* the files main of 05_align_embeddings.py writes
ProcrustesFiles == {"alignment_matrix.npy", "alignment_stats.json"}

\* the orthogonal matrices standing for what orthogonal_procrustes may return
Rotations == {IdentityMatrix, QuarterTurn}

FitInit ==
    /\ ScoreIdle
    /\ PipeIdle
    /\ RetrieveIdle
    /\ ValidateIdle
    /\ SeedOutputsIdle
    /\ pc = "fit"
    /\ argsort_tie = <<>>
    /\ candidates = EmptyDict
    /\ metrics = EmptyDict
    /\ seed_pairs \in FitSeedLists
    /\ char_ngrams \in BOOLEAN
    /\ routine = ""
    /\ ido_space \in SourceSpaces
    /\ epo_space \in TargetSpaces
    /\ ido_before = <<>>
    /\ epo_before = <<>>
    /\ ido_aligned = <<>>
    /\ epo_aligned = <<>>
    /\ iterations \in 1..MaxIterations
    /\ iteration = 0
    /\ initial_sim = EmptyDict
    /\ saved = {}

fitOthers == <<argsort_tie, candidates, retrieveVars, validateVars, evaluateVars, seedVars,
               scoreVars, pipeVars>>

\* the caller's matrix after row writes to a local one that is the caller's own array
WrittenThrough(caller, local) == local

\* the caller's matrix after row writes to a local one made by .copy() (lines 119-120)
AfterWrites(caller, local) == caller

\* retrofit_embeddings, lines 118-124: the copies and initial_sim
RetrofitBegin ==
    /\ pc = "fit"
    /\ routine' = "retrofit_embeddings"
    /\ ido_aligned' = ido_space
    /\ epo_aligned' = epo_space
    /\ LET sim == compute_seed_similarity(ido_space, epo_space, seed_pairs)
       IN  /\ initial_sim' = sim
           /\ pc' = IF sim.raised THEN "ValueError" ELSE "iteration"
    /\ UNCHANGED <<fitOthers, ido_space, epo_space, ido_before, epo_before, iterations,
                   iteration, saved>>

\* one pass of the loop of line 127, lines 130-146: every Ido row, then every
\* Esperanto row
RetrofitUpdate ==
    /\ pc = "iteration"
    /\ iteration < iterations
    /\ ido_before' = ido_aligned
    /\ epo_before' = epo_aligned
    /\ LET updated == UpdatePasses(ido_aligned, epo_aligned, seed_pairs)
       IN  /\ ido_aligned' = updated[1]
           /\ epo_aligned' = updated[2]
    /\ ido_space' = AfterWrites(ido_space, ido_aligned')
    /\ epo_space' = AfterWrites(epo_space, epo_aligned')
    /\ pc' = "normalize"
    /\ UNCHANGED <<fitOthers, routine, iterations, iteration, initial_sim, saved>>

\* the same pass, lines 148-156: both matrices normalised, current_sim logged
RetrofitNormalize ==
    /\ pc = "normalize"
    /\ ido_aligned' = Normalize(ido_aligned)
    /\ epo_aligned' = Normalize(epo_aligned)
    /\ iteration' = iteration + 1
    /\ pc' = "iteration"
    /\ UNCHANGED <<fitOthers, routine, ido_space, epo_space, ido_before, epo_before,
                   iterations, initial_sim, saved>>

\* lines 158-166: improvement / initial_sim divides two Python floats when no
\* pair is in both vocabularies
RetrofitReturn ==
    /\ pc = "iteration"
    /\ iteration = iterations
    /\ pc' = IF initial_sim.python_zero THEN "ZeroDivisionError" ELSE "retrofitted"
    /\ UNCHANGED <<fitOthers, fitVars>>

\* main of align_bert_with_esperanto.py, lines 270-307: retrieval on the
\* retrofitted spaces, then the four files
SaveRetrofitted ==
    /\ pc = "retrofitted"
    /\ saved' = RetrofitFiles
    /\ pc' = "done"
    /\ UNCHANGED <<fitOthers, routine, ido_space, epo_space, ido_before, epo_before,
                   ido_aligned, epo_aligned, iterations, iteration, initial_sim>>

\* the files main of 15_bert_crosslingual_alignment.py writes after fitting
AlignedFiles == {"procrustes_W.npy", "ido_aligned.npy", "epo_aligned.npy"}

\* main of 05_align_embeddings.py, lines 185-206: extract_embedding_matrices,
\* learn_procrustes_alignment (scipy raises ValueError for matrices without
\* rows), evaluate_alignment, then the two files
ProcrustesMain ==
    /\ pc = "fit"
    /\ routine' = "learn_procrustes_alignment"
    /\ LET m == extract_embedding_matrices(seed_pairs,
                                            FastTextModel(ido_model, char_ngrams),
                                            FastTextModel(epo_model, char_ngrams))
       IN  IF Len(m.X_ido) = 0
           THEN /\ pc' = "ValueError"
                /\ UNCHANGED <<alignment_matrix, metrics, saved>>
           ELSE \E W \in Rotations :
                    /\ alignment_matrix' = W
                    /\ IF Len(m.X_ido) < Len(seed_pairs)
                       THEN /\ pc' = "IndexError"
                            /\ UNCHANGED <<metrics, saved>>
                       ELSE /\ pc' = "done"
                            /\ metrics' = evaluate_alignment(W, m.X_ido, m.X_epo, seed_pairs)
                            /\ saved' = ProcrustesFiles
    /\ UNCHANGED <<argsort_tie, candidates, retrieveVars, check_mutual, min_similarity,
                   val_pos, high_conf, medium_conf, low_conf, seed_pairs, seedVars,
                   ido_space, epo_space, ido_before, epo_before, ido_aligned, epo_aligned,
                   iterations, iteration, initial_sim, scoreVars, pipeVars>>

\* ido_emb @ W, row by row
MatMul(matrix, W) == AsTuple([r \in 1..Len(matrix) |-> MatVec(Transpose(W), matrix[r])])

\* align_embeddings_procrustes of 15_bert_crosslingual_alignment.py, lines 163-225:
\* np.dot of line 191 raises ValueError for rows of different length,
\* orthogonal_procrustes for matrices without rows; line 214 reads Y_normalized[i]
\* for every row of X_aligned
AlignEmbeddingsProcrustes ==
    /\ pc = "fit"
    /\ routine' = "align_embeddings_procrustes"
    /\ LET used == SimilarityPairs(seed_pairs)
           source_pairs == SelectSeq(seed_pairs, LAMBDA pair : pair[1] \in Range(FitIdoVocab))
           target_pairs == SelectSeq(seed_pairs, LAMBDA pair : pair[2] \in Range(FitEpoVocab))
       IN  IF Len(used) = 0 \/ Len(ido_space[1]) # Len(epo_space[1])
           THEN /\ pc' = "ValueError"
                /\ UNCHANGED <<alignment_matrix, ido_aligned, epo_aligned>>
           ELSE /\ alignment_matrix' \in Rotations
                /\ ido_aligned' = Normalize(MatMul(ido_space, alignment_matrix'))
                /\ epo_aligned' = Normalize(epo_space)
                /\ pc' = IF Len(source_pairs) > Len(target_pairs) THEN "IndexError" ELSE "aligned"
    /\ UNCHANGED <<argsort_tie, candidates, retrieveVars, check_mutual, min_similarity,
                   val_pos, high_conf, medium_conf, low_conf, evaluateVars, seedVars,
                   ido_space, epo_space, ido_before, epo_before, iterations, iteration,
                   initial_sim, saved, scoreVars, pipeVars>>

\* main of 15_bert_crosslingual_alignment.py, lines 406-409
SaveAligned ==
    /\ pc = "aligned"
    /\ saved' = AlignedFiles
    /\ pc' = "done"
    /\ UNCHANGED <<fitOthers, routine, ido_space, epo_space, ido_before, epo_before,
                   ido_aligned, epo_aligned, iterations, iteration, initial_sim>>

FitNext ==
    \/ RetrofitBegin
    \/ RetrofitUpdate
    \/ RetrofitNormalize
    \/ RetrofitReturn
    \/ SaveRetrofitted
    \/ ProcrustesMain
    \/ AlignEmbeddingsProcrustes
    \/ SaveAligned

SpecFit == FitInit /\ [][FitNext]_vars

-----------------------------------------------------------------------------
\* Claims about alignment fitting (SpecFit)

\* no seed pair is left after the routine's own vocabulary filter
NoUsableSeedPair ==
    IF routine = "learn_procrustes_alignment"
    THEN extract_embedding_matrices(seed_pairs,
                                    FastTextModel(ido_model, char_ngrams),
                                    FastTextModel(epo_model, char_ngrams)).X_ido = <<>>
    ELSE SimilarityPairs(seed_pairs) = <<>>

\* the routine has handed a transform or aligned matrices to its caller
FitReturned == pc \in {"retrofitted", "aligned", "done"}

\* C11: when no seed pair survives filtering, fitting (Procrustes and retrofitting
\* alike) ends in an error before a transform or an aligned matrix is returned or
\* saved: the routine never returns, no file is written, and so no later stage
\* runs on a transform fitted from zero pairs.
C11_EmptySeedsFatal ==
    (routine # "" /\ NoUsableSeedPair) =>
        /\ ~FitReturned
        /\ saved = {}
        /\ pc \in {"iteration", "normalize", "ValueError", "ZeroDivisionError"}
        /\ pc \in {"iteration", "normalize", "ZeroDivisionError"} => routine = "retrofit_embeddings"

\* retrofitting ran all its iterations on zero usable pairs and then failed
C11_Witness ==
    /\ routine = "retrofit_embeddings"
    /\ NoUsableSeedPair
    /\ Len(seed_pairs) = NumSeedPairs
    /\ iteration = iterations
    /\ pc = "ZeroDivisionError"
    /\ saved = {}

\* the two spaces have different dimensions
DimensionsDiffer == Len(ido_space[1]) # Len(epo_space[1])

\* C12: with source and target spaces of different dimensions, Procrustes fitting
\* fails with an error, whereas retrofitting does not fail: retrofit_embeddings
\* completes and returns spaces that keep their own dimensions.
C12_RetrofitToleratesDimensions ==
    DimensionsDiffer =>
        /\ routine = "align_embeddings_procrustes" => pc = "ValueError"
        /\ routine = "retrofit_embeddings" =>
               /\ pc \notin {"ValueError", "ZeroDivisionError"}
               /\ pc \in {"retrofitted", "done"} =>
                      /\ Len(ido_aligned[1]) = Len(ido_space[1])
                      /\ Len(epo_aligned[1]) = Len(epo_space[1])

RECURSIVE BlendAll(_, _, _)
\* row blended with others[n], others[n + 1], ... one after the other
BlendAll(row, others, n) ==
    IF n > Len(others) THEN row ELSE BlendAll(Blend(row, others[n]), others, n + 1)

\* the Esperanto rows the pairs with Ido row r name, in seed order
TargetsOf(r, epo) ==
    LET ps == SelectSeq(SimilarityPairs(seed_pairs), LAMBDA pair : IdoRow(pair) = r)
    IN  AsTuple([k \in 1..Len(ps) |-> epo[EpoRow(ps[k])]])

\* the Ido rows the pairs with Esperanto row r name, in seed order
SourcesOf(r, ido) ==
    LET ps == SelectSeq(SimilarityPairs(seed_pairs), LAMBDA pair : EpoRow(pair) = r)
    IN  AsTuple([k \in 1..Len(ps) |-> ido[IdoRow(ps[k])]])

\* every row has norm 1 (Unit) or is the zero row
Normalized(matrix) ==
    \A r \in 1..Len(matrix) : Dot(matrix[r], matrix[r]) \in {0, Unit * Unit}

RECURSIVE Interleaved(_, _, _, _)
\* pair by pair: the source row of the pair, then its target row from the source
\* row just updated, then the next pair
Interleaved(ido, epo, pairs, n) ==
    IF n > Len(pairs) THEN <<ido, epo>>
    ELSE IF InBothIdx(pairs[n])
         THEN LET s == IdoRow(pairs[n])
                  t == EpoRow(pairs[n])
                  ido_s == Blend(ido[s], epo[t])
              IN  Interleaved(SetRow(ido, s, ido_s), SetRow(epo, t, Blend(epo[t], ido_s)),
                              pairs, n + 1)
         ELSE Interleaved(ido, epo, pairs, n + 1)

\* C13 (as stated): in each iteration the pairs are processed pair by pair, the
\* source row of (s,t) set to (1-alpha)*source[s] + alpha*target[t] and then the
\* target row to (1-alpha)*target[t] + alpha*source[s] with the source row just
\* updated, before the next pair is processed.
C13_PairByPair ==
    pc = "normalize" =>
        <<ido_aligned, epo_aligned>> = Interleaved(ido_before, epo_before, seed_pairs, 1)

\* C13 (amended): each iteration runs two passes over the seed pairs. The first
\* sets, pair after pair, source row s to (1-alpha)*source[s] + alpha*target[t] with
\* the target rows as they were when the iteration started; the second sets, pair
\* after pair, target row t to (1-alpha)*target[t] + alpha*source[s] with the source
\* rows as the first pass left them. Rows no usable pair names stay as they were.
\* The first iteration starts from the given spaces and iteration i+1 from the
\* normalised result of iteration i.
C13_TwoPasses ==
    /\ pc = "normalize" =>
           /\ \A r \in 1..Len(ido_aligned) :
                  ido_aligned[r] = BlendAll(ido_before[r], TargetsOf(r, epo_before), 1)
           /\ \A r \in 1..Len(epo_aligned) :
                  epo_aligned[r] = BlendAll(epo_before[r], SourcesOf(r, ido_aligned), 1)
           /\ iteration = 0 => ido_before = ido_space /\ epo_before = epo_space
           /\ iteration > 0 => Normalized(ido_before) /\ Normalized(epo_before)
    /\ (pc = "iteration" /\ iteration > 0) => Normalized(ido_aligned) /\ Normalized(epo_aligned)

\* two pairs share their target term, and the two passes leave another state than
\* pair-by-pair processing would
C13_Witness ==
    /\ pc = "normalize"
    /\ seed_pairs = <<<<"hundo", "hundo">>, <<"kato", "hundo">>>>
    /\ <<ido_aligned, epo_aligned>> # Interleaved(ido_before, epo_before, seed_pairs, 1)
    /\ ido_aligned # ido_before
    /\ epo_aligned # epo_before

\* one whole iteration, lines 130-150: the two loops and the normalisation
IterationResult(ido, epo, pairs) ==
    LET updated == UpdatePasses(ido, epo, pairs)
    IN  <<Normalize(updated[1]), Normalize(updated[2])>>

\* the seed list in the order p[1], p[2], ...
Reordered(pairs, p) == AsTuple([n \in 1..Len(pairs) |-> pairs[p[n]]])

\* the spaces at the end of the iteration are those every order of the seed pairs
\* gives from the spaces the iteration started with
SameForEveryOrder ==
    \A p \in TieOrders(Len(seed_pairs)) :
        <<ido_aligned, epo_aligned>> =
            IterationResult(ido_before, epo_before, Reordered(seed_pairs, p))

\* no source term and no target term occurs in two usable pairs
NoRepeatedTerm ==
    LET used == SimilarityPairs(seed_pairs)
    IN  \A a, b \in 1..Len(used) :
            a # b => used[a][1] # used[b][1] /\ used[a][2] # used[b][2]

\* an iteration of retrofit_embeddings has just ended
IterationEnded == pc = "iteration" /\ iteration > 0

\* C14 (as stated): the spaces at the end of an iteration are the same for every
\* order in which the seed pairs are processed, also when a source or a target term
\* occurs in more than one pair.
C14_OrderIndependent == IterationEnded => SameForEveryOrder

\* C14 (amended): the spaces at the end of an iteration are the same for every
\* order in which the seed pairs are processed when no source term and no target
\* term occurs in more than one usable pair.
C14_OrderIndependentWithoutRepeats ==
    (IterationEnded /\ NoRepeatedTerm) => SameForEveryOrder

\* an iteration over two usable pairs without a repeated term moved both spaces
C14_Witness ==
    /\ IterationEnded
    /\ NoRepeatedTerm
    /\ Len(SimilarityPairs(seed_pairs)) = NumSeedPairs
    /\ seed_pairs[1] # seed_pairs[2]
    /\ ido_aligned # ido_before
    /\ epo_aligned # epo_before

-----------------------------------------------------------------------------
\* Scoring functions: csls and the mutual check of find_candidates
\* (05_find_candidates.py), find_nearest_neighbors (06_find_candidates.py),
\* check_mutual_nearest_neighbor and compute_frequency_ratio
\* (07_validate_candidates.py), each called once on inputs drawn from small models.
\* Every vector of these models has an integer norm, so a cosine is an exact
\* number of hundredths.

MaxNeighbours == 4

\* cosines and CSLS scores are counted in 1 / CosDen
CosDen == 100

\* threshold=0.7 of find_candidates, in 1 / CosDen
CslsThreshold == 70

ScoreWords == epo_words

\* three terms in three different directions; "kato" was never counted
WvDistinct ==
    [index_to_key |-> ScoreWords, vectors |-> <<<<5, 0>>, <<3, 4>>, <<0, 5>>>>,
     count |-> <<50, 10, 0>>]

WvSpread ==
    [index_to_key |-> ScoreWords, vectors |-> <<<<3, 4>>, <<3, -4>>, <<0, 5>>>>,
     count |-> <<50, 100, 7>>]

\* "hundo" and "akvo" point in the same direction
WvParallel ==
    [index_to_key |-> ScoreWords, vectors |-> <<<<3, 4>>, <<6, 8>>, <<4, 3>>>>,
     count |-> <<50, 50, 5>>]

ScoreModels == {WvDistinct, WvSpread, WvParallel}

\* the terms handed to the functions; "kate" is in no vocabulary
QueryWords == Range(ScoreWords) \cup {"kate"}

\* the exact value of a cosine: dot / sqrt(sq); sklearn's cosine_similarity divides
\* by 1 where a norm is 0
Cosine(v, row) ==
    [dot |-> Dot(v, row),
     sq |-> (IF Dot(v, v) = 0 THEN 1 ELSE Dot(v, v)) *
            (IF Dot(row, row) = 0 THEN 1 ELSE Dot(row, row))]

\* the same without [::-1]: lowest of the k first
TopKCosineAscending(v, vectors, k, tie) ==
    LET similarities == AsTuple([n \in 1..Len(vectors) |-> CosineKey(v, vectors[n])])
    IN  LastK(ArgsortCosine(similarities, tie), k)

\* np.argsort(similarities)[-k:][::-1] on cosine_similarity(v, vectors)[0]
TopKCosine(v, vectors, k, tie) ==
    LET similarities == AsTuple([n \in 1..Len(vectors) |-> CosineKey(v, vectors[n])])
    IN  Reverse(LastK(ArgsortCosine(similarities, tie), k))

\* find_nearest_neighbors of 06_find_candidates.py
find_nearest_neighbors(word, im, em, W, k, tie) ==
    IF ~Contains(im, word) THEN <<>>
    ELSE LET v_aligned == MatVec(W, GetVector(im, word))
             top_k_indices == TopKCosine(v_aligned, em.vectors, k, tie)
         IN  AsTuple([n \in 1..Len(top_k_indices) |->
                 [translation |-> em.index_to_key[top_k_indices[n]],
                  similarity |-> Cosine(v_aligned, em.vectors[top_k_indices[n]])]])

\* the check with the alignment applied forwards (W instead of W.T)
MutualNearestNeighborForward(ido_word, epo_word, im, em, W, k, tie) ==
    IF ~Contains(em, epo_word) THEN FALSE
    ELSE LET v_aligned == MatVec(W, GetVector(em, epo_word))
             top_k_indices == TopKCosine(v_aligned, im.vectors, k, tie)
             top_k_words == [n \in 1..Len(top_k_indices) |->
                                 im.index_to_key[top_k_indices[n]]]
         IN  ido_word \in Range(top_k_words)

\* check_mutual_nearest_neighbor of 07_validate_candidates.py on any two models
MutualNearestNeighbor(ido_word, epo_word, im, em, W, k, tie) ==
    IF ~Contains(em, epo_word) THEN FALSE
    ELSE LET v_aligned == MatVec(Transpose(W), GetVector(em, epo_word))
             top_k_indices == TopKCosine(v_aligned, im.vectors, k, tie)
             top_k_words == [n \in 1..Len(top_k_indices) |->
                                 im.index_to_key[top_k_indices[n]]]
         IN  ido_word \in Range(top_k_words)

\* compute_frequency_ratio with max / min
FrequencyRatioInverted(ido_word, epo_word, im, em) ==
    IF ~InVocab(im, ido_word) \/ ~InVocab(em, epo_word)
    THEN [error |-> "KeyError", num |-> 0, den |-> 1]
    ELSE LET ido_count == get_vecattr(im, ido_word)
             epo_count == get_vecattr(em, epo_word)
         IN  IF ido_count = 0 \/ epo_count = 0 THEN [error |-> "", num |-> 0, den |-> 1]
             ELSE [error |-> "", num |-> Max(ido_count, epo_count),
                   den |-> Min(ido_count, epo_count)]

\* compute_frequency_ratio of 07_validate_candidates.py on any two models:
\* get_vecattr raises KeyError for a word that is not in key_to_index
FrequencyRatio(ido_word, epo_word, im, em) ==
    IF ~InVocab(im, ido_word) \/ ~InVocab(em, epo_word)
    THEN [error |-> "KeyError", num |-> 0, den |-> 1]
    ELSE LET ido_count == get_vecattr(im, ido_word)
             epo_count == get_vecattr(em, epo_word)
         IN  IF ido_count = 0 \/ epo_count = 0 THEN [error |-> "", num |-> 0, den |-> 1]
             ELSE [error |-> "", num |-> Min(ido_count, epo_count),
                   den |-> Max(ido_count, epo_count)]

\* np.dot(tgt_vecs_norm, src_vec), in 1 / CosDen
CosineRow(src_vec, tgt_vecs) ==
    AsTuple([n \in 1..Len(tgt_vecs) |->
        (Dot(tgt_vecs[n], src_vec) * CosDen) \div (Norm(tgt_vecs[n]) * Norm(src_vec))])

\* indices 1..n, highest value first; equal values in the order tie gives them
ArgsortDescending(values, tie) ==
    Reverse(ArgsortAscending(AsTuple([n \in 1..Len(values) |-> n]), values, tie))

RECURSIVE SumAt(_, _, _)
\* values[idx[n]] + values[idx[n + 1]] + ...
SumAt(values, idx, n) ==
    IF n > Len(idx) THEN 0 ELSE values[idx[n]] + SumAt(values, idx, n + 1)

\* csls with the mean taken over every candidate
csls_mean_of_all(src_vec, tgt_vecs, k, tie) ==
    LET similarities == CosineRow(src_vec, tgt_vecs)
        top_k_idx == ArgsortDescending(similarities, tie)
        total == SumAt(similarities, top_k_idx, 1)
    IN  AsTuple([n \in 1..Len(similarities) |->
            [num |-> 2 * similarities[n] * Len(top_k_idx) - total,
             den |-> CosDen * Len(top_k_idx)]])

\* csls with the neighbourhood mean of each candidate subtracted instead of the
\* query's
csls_candidate_side(src_vec, tgt_vecs, k, tie) ==
    LET similarities == CosineRow(src_vec, tgt_vecs)
        size == Min(k, Len(similarities))
        MeanTimesSize(n) ==
            LET around == CosineRow(tgt_vecs[n], tgt_vecs)
            IN  SumAt(around, Take(ArgsortDescending(around, tie), k), 1)
    IN  AsTuple([n \in 1..Len(similarities) |->
            [num |-> 2 * similarities[n] * size - MeanTimesSize(n),
             den |-> CosDen * size]])

\* csls of 05_find_candidates.py: np.argpartition(-similarities, min(k, n - 1))[:k]
\* holds k indices of highest similarity (all of them when n <= k), which of several
\* equal ones being the build's choice; scores are exact fractions
csls(src_vec, tgt_vecs, k, tie) ==
    LET similarities == CosineRow(src_vec, tgt_vecs)
        top_k_idx == Take(ArgsortDescending(similarities, tie), k)
        total == SumAt(similarities, top_k_idx, 1)
    IN  AsTuple([n \in 1..Len(similarities) |->
            [num |-> 2 * similarities[n] * Len(top_k_idx) - total,
             den |-> CosDen * Len(top_k_idx)]])

\* np.argsort(-csls_scores)[:k]
TopKCsls(csls_scores, k, tie) ==
    Take(ArgsortDescending(AsTuple([n \in 1..Len(csls_scores) |-> csls_scores[n].num]), tie), k)

\* similarity < threshold
BelowCslsThreshold(score) == score.num * CosDen < CslsThreshold * score.den

\* confidence = similarity + (0.1 if is_mutual else 0), times den * CosDen
Confidence(c) == c.similarity.num * CosDen + (IF c.mutual THEN 10 * c.similarity.den ELSE 0)

\* candidates.sort(key=lambda x: x['confidence'], reverse=True): stable
SortByConfidence(cands) ==
    LET order == SortIndices(AsTuple([n \in 1..Len(cands) |-> n]),
                     [a \in 1..Len(cands) |-> [b \in 1..Len(cands) |->
                         \/ Confidence(cands[a]) > Confidence(cands[b])
                         \/ Confidence(cands[a]) = Confidence(cands[b]) /\ a < b]])
    IN  AsTuple([n \in 1..Len(cands) |-> cands[order[n]]])

\* find_candidates of 05_find_candidates.py, lines 70-118, for one unknown Ido word
find_candidates(ido_word, im, em, k, tie) ==
    LET ido_idx == KeyIndex(im, ido_word)
        csls_scores == csls(im.vectors[ido_idx], em.vectors, k, tie)
        top_k_idx == TopKCsls(csls_scores, k, tie)
        kept == SelectSeq(top_k_idx, LAMBDA idx : ~BelowCslsThreshold(csls_scores[idx]))
    IN  SortByConfidence(AsTuple([n \in 1..Len(kept) |->
            LET reverse_csls == csls(em.vectors[kept[n]], im.vectors, k, tie)
                reverse_top_k == TopKCsls(reverse_csls, k, tie)
            IN  [ido |-> ido_word, epo |-> em.index_to_key[kept[n]],
                 similarity |-> csls_scores[kept[n]],
                 mutual |-> ido_idx \in Range(reverse_top_k)]]))

\* the length the model gives a normalised row
ScoreNorm == 5

\* threshold=0.80 of find_translation_candidates, in hundredths
DefaultThreshold == 80

\* matrix / np.linalg.norm(matrix, axis=1, keepdims=True), rows of length ScoreNorm
UnitRows(matrix) ==
    AsTuple([r \in 1..Len(matrix) |->
        AsTuple([c \in 1..Len(matrix[r]) |-> (matrix[r][c] * ScoreNorm) \div Norm(matrix[r])])])

\* the translations find_translation_candidates of 15_bert_crosslingual_alignment.py
\* builds for query row j (lines 253-265)
TranslationsOfRow(j, ido_rows, epo_rows, epo_keys, thr, k, tie) ==
    LET sims == SimilarityRow(ido_rows[j], epo_rows)
        top_indices == TopIndices(WhereAtLeast(sims, thr), sims, tie, k)
    IN  AsTuple([n \in 1..Len(top_indices) |->
            [epo |-> epo_keys[top_indices[n]], similarity |-> sims[top_indices[n]]]])

\* find_translation_candidates on the normalised matrices main hands to it
find_translation_candidates(im, em, k, tie) ==
    LET ido_rows == UnitRows(im.vectors)
        epo_rows == UnitRows(em.vectors)
        thr == (DefaultThreshold * ScoreNorm * ScoreNorm) \div CosDen
        found == {j \in 1..Len(ido_rows) :
                     Len(WhereAtLeast(SimilarityRow(ido_rows[j], epo_rows), thr)) > 0}
    IN  [w \in {im.index_to_key[j] : j \in found} |->
            TranslationsOfRow(KeyIndex(im, w), ido_rows, epo_rows, em.index_to_key,
                              thr, k, tie)]

ScoreInit ==
    /\ RetrieveIdle
    /\ EvaluateIdle
    /\ SeedOutputsIdle
    /\ FitIdle
    /\ PipeIdle
    /\ pc = "score"
    /\ candidates = EmptyDict
    /\ check_mutual = TRUE
    /\ min_similarity = 0
    /\ val_pos = 0
    /\ high_conf = EmptyDict
    /\ medium_conf = EmptyDict
    /\ low_conf = EmptyDict
    /\ char_ngrams \in BOOLEAN
    /\ alignment_matrix \in Rotations
    /\ argsort_tie \in TieChoices(Len(ScoreWords))
    /\ ido_wv \in ScoreModels
    /\ epo_wv \in ScoreModels
    /\ word_pair \in QueryWords \X QueryWords
    /\ k_arg \in 1..MaxNeighbours
    /\ returned = <<>>

scoreOthers == <<argsort_tie, candidates, retrieveVars, validateVars, evaluateVars,
                 seedVars, fitVars, pipeVars, ido_wv, epo_wv, word_pair, k_arg>>

\* csls(ido_vecs[ido_idx], epo_vecs, k) for a word of the Ido embeddings file
Csls ==
    /\ pc = "score"
    /\ InVocab(ido_wv, word_pair[1])
    /\ returned' = csls(WordVector(ido_wv, word_pair[1]), epo_wv.vectors, k_arg, argsort_tie)
    /\ pc' = "csls"
    /\ UNCHANGED scoreOthers

\* the body of "for ido_word in unknown_ido" of find_candidates and the final sort
FindCandidates ==
    /\ pc = "score"
    /\ InVocab(ido_wv, word_pair[1])
    /\ returned' = find_candidates(word_pair[1], ido_wv, epo_wv, k_arg, argsort_tie)
    /\ pc' = "find_candidates"
    /\ UNCHANGED scoreOthers

FindNearestNeighbors ==
    /\ pc = "score"
    /\ returned' = find_nearest_neighbors(word_pair[1], FastTextModel(ido_wv, char_ngrams),
                                          FastTextModel(epo_wv, char_ngrams),
                                          alignment_matrix, k_arg, argsort_tie)
    /\ pc' = "find_nearest_neighbors"
    /\ UNCHANGED scoreOthers

CheckMutualNearestNeighbor ==
    /\ pc = "score"
    /\ returned' = MutualNearestNeighbor(word_pair[1], word_pair[2],
                                         FastTextModel(ido_wv, char_ngrams),
                                         FastTextModel(epo_wv, char_ngrams),
                                         alignment_matrix, k_arg, argsort_tie)
    /\ pc' = "check_mutual_nearest_neighbor"
    /\ UNCHANGED scoreOthers

ComputeFrequencyRatio ==
    /\ pc = "score"
    /\ LET ratio == FrequencyRatio(word_pair[1], word_pair[2], ido_wv, epo_wv)
       IN  IF ratio.error # ""
           THEN /\ pc' = ratio.error
                /\ UNCHANGED returned
           ELSE /\ pc' = "compute_frequency_ratio"
                /\ returned' = [num |-> ratio.num, den |-> ratio.den]
    /\ UNCHANGED scoreOthers

\* find_translation_candidates as main of 15_bert_crosslingual_alignment.py calls
\* it (lines 416-421); line 274 divides by len(candidates)
FindTranslationCandidates ==
    /\ pc = "score"
    /\ LET found == find_translation_candidates(ido_wv, epo_wv, k_arg, argsort_tie)
       IN  /\ returned' = found
           /\ pc' = IF DOMAIN found = {} THEN "ZeroDivisionError"
                     ELSE "translation_candidates"
    /\ UNCHANGED scoreOthers

ScoreNext ==
    \/ FindTranslationCandidates
    \/ Csls
    \/ FindCandidates
    \/ FindNearestNeighbors
    \/ CheckMutualNearestNeighbor
    \/ ComputeFrequencyRatio

SpecScore == ScoreInit /\ [][ScoreNext]_vars

-----------------------------------------------------------------------------
\* Claims about the scoring functions (SpecScore)

RECURSIVE SumOver(_, _)
\* the sum of values[n] for n in the set S
SumOver(values, S) ==
    IF S = {} THEN 0
    ELSE LET n == CHOOSE m \in S : TRUE IN values[n] + SumOver(values, S \ {n})

\* the cosines of the query of the csls call with every candidate, in 1 / CosDen
QueryCosines == CosineRow(WordVector(ido_wv, word_pair[1]), epo_wv.vectors)

\* S holds k candidates of highest cosine, or every candidate when there are fewer
HighestCosines(S, cosines, k) ==
    /\ S \subseteq 1..Len(cosines)
    /\ Cardinality(S) = Min(k, Len(cosines))
    /\ \A a \in S : \A b \in (1..Len(cosines)) \ S : cosines[a] >= cosines[b]

\* C15: csls returns for every candidate of one query 2*cos(query, candidate) - r,
\* where r is the mean cosine of the k candidates of highest cosine with that query
\* (of all candidates when there are fewer than k), the same r for every candidate.
C15_CslsScores ==
    pc = "csls" =>
        /\ Len(returned) = Len(epo_wv.vectors)
        /\ \E S \in SUBSET (1..Len(QueryCosines)) :
               /\ HighestCosines(S, QueryCosines, k_arg)
               /\ \A c \in 1..Len(returned) :
                      returned[c].num * CosDen * Cardinality(S) =
                          (2 * QueryCosines[c] * Cardinality(S) - SumOver(QueryCosines, S))
                              * returned[c].den

\* the example of the specification: r = 0.4 and a candidate of cosine 0.6 scored 0.8,
\* with more candidates than k in one state and fewer in another
C15_Witness ==
    /\ pc = "csls"
    /\ k_arg = 3
    /\ \E S \in SUBSET (1..Len(QueryCosines)) :
           /\ HighestCosines(S, QueryCosines, k_arg)
           /\ SumOver(QueryCosines, S) * 10 = 4 * CosDen * Cardinality(S)
    /\ \E c \in 1..Len(returned) :
           /\ QueryCosines[c] * 10 = 6 * CosDen
           /\ returned[c].num * 10 = 8 * returned[c].den

\* S holds k rows of highest key, or every row when there are fewer than k
HighestKeys(S, keys, k) ==
    /\ S \subseteq 1..Len(keys)
    /\ Cardinality(S) = Min(k, Len(keys))
    /\ \A a \in S : \A b \in (1..Len(keys)) \ S : ~CosineLess(keys[a], keys[b])

\* row r is in some / in every choice of the k rows of highest key
AmongHighest(r, keys, k) == \E S \in SUBSET (1..Len(keys)) : HighestKeys(S, keys, k) /\ r \in S

SurelyAmongHighest(r, keys, k) ==
    \A S \in SUBSET (1..Len(keys)) : HighestKeys(S, keys, k) => r \in S

\* the cosines of every source term with the vector of t taken back through the
\* transposed alignment (07_validate_candidates.py)
ReverseKeys(t) ==
    LET em == FastTextModel(epo_wv, char_ngrams)
        v == MatVec(Transpose(alignment_matrix), GetVector(em, t))
    IN  AsTuple([n \in 1..Len(ido_wv.vectors) |-> CosineKey(v, ido_wv.vectors[n])])

\* the same for 05_find_candidates.py, whose spaces are already aligned
ReverseCosines(t) ==
    LET row == CosineRow(WordVector(epo_wv, t), ido_wv.vectors)
    IN  AsTuple([n \in 1..Len(row) |-> [num |-> row[n], den |-> 1]])

\* flag is what the check may return for (s, t) given the reverse scores: true only
\* if s is among the k highest-scoring source terms, and true whenever it is so
\* for every way of ordering equal scores
MutualFlagCorrect(flag, s, keys, k) ==
    /\ flag \in BOOLEAN
    /\ flag => InVocab(ido_wv, s) /\ AmongHighest(KeyIndex(ido_wv, s), keys, k)
    /\ (InVocab(ido_wv, s) /\ SurelyAmongHighest(KeyIndex(ido_wv, s), keys, k)) => flag

\* C16: the mutual-nearest-neighbour check of a candidate (s,t) returns a boolean
\* for every candidate: true exactly when s is among the k source terms that score
\* highest for the vector of t in the reverse direction, and false otherwise (also
\* when t has no vector).  Where equal scores leave the k highest undetermined, the
\* answer is that of one of the possible choices.
C16_MutualIsReverseTopK ==
    /\ pc = "check_mutual_nearest_neighbor" =>
           IF Contains(FastTextModel(epo_wv, char_ngrams), word_pair[2])
           THEN MutualFlagCorrect(returned, word_pair[1], ReverseKeys(word_pair[2]), k_arg)
           ELSE returned = FALSE
    /\ pc = "find_candidates" =>
           \A n \in 1..Len(returned) :
               MutualFlagCorrect(returned[n].mutual, returned[n].ido,
                                 ReverseCosines(returned[n].epo), k_arg)

\* the check said yes for two different terms under a quarter turn, with fewer
\* places than source terms
C16_Witness ==
    /\ pc = "check_mutual_nearest_neighbor"
    /\ returned = TRUE
    /\ k_arg = 1
    /\ word_pair[1] # word_pair[2]
    /\ alignment_matrix = QuarterTurn
    /\ \E r \in 1..Len(ido_wv.vectors) :
           ~AmongHighest(r, ReverseKeys(word_pair[2]), k_arg)

\* both spaces are the same space and the alignment is the identity
IdentityAlignment == ido_wv = epo_wv /\ alignment_matrix = IdentityMatrix

\* a similarity that is exactly 1.0
IsOne(similarity) == similarity.dot > 0 /\ similarity.dot * similarity.dot = similarity.sq

\* no other term of the space points in the direction of w
UniqueDirection(w) ==
    \A r \in 1..Len(ido_wv.vectors) :
        r # KeyIndex(ido_wv, w) =>
            ~IsOne(Cosine(WordVector(ido_wv, w), ido_wv.vectors[r]))

\* what the three routines must give for w when the two spaces are the same
IdentitySanity(w) ==
    /\ (pc = "check_mutual_nearest_neighbor" /\ alignment_matrix = IdentityMatrix
            /\ word_pair = <<w, w>>) => returned = TRUE
    /\ (pc = "find_nearest_neighbors" /\ alignment_matrix = IdentityMatrix
            /\ word_pair[1] = w) =>
           /\ Len(returned) >= 1
           /\ returned[1].translation = w
           /\ IsOne(returned[1].similarity)
    /\ pc = "translation_candidates" =>
           /\ w \in DOMAIN returned
           /\ returned[w][1].epo = w
           /\ returned[w][1].similarity = ScoreNorm * ScoreNorm

\* C17 (as stated): when the source space and the target space are the same space
\* and the alignment is the identity, for every term w the mutual check of (w,w)
\* returns true and retrieval for w returns w first with similarity 1.0.
C17_IdentitySanity ==
    ido_wv = epo_wv => \A w \in Range(ido_wv.index_to_key) : IdentitySanity(w)

\* C17 (amended): the same for every term w whose vector has a direction no other
\* term of the space shares.
C17_IdentitySanityUniqueDirection ==
    ido_wv = epo_wv =>
        \A w \in Range(ido_wv.index_to_key) : UniqueDirection(w) => IdentitySanity(w)

\* retrieval in a space put against itself returned the term itself first, with
\* other terms behind it
C17_Witness ==
    /\ IdentityAlignment
    /\ pc = "find_nearest_neighbors"
    /\ UniqueDirection(word_pair[1])
    /\ InVocab(ido_wv, word_pair[1])
    /\ Len(returned) = 3
    /\ returned[1].translation = word_pair[1]
    /\ IsOne(returned[1].similarity)
    /\ ~IsOne(returned[2].similarity)

\* the two counts handed to compute_frequency_ratio
IdoCount == get_vecattr(ido_wv, word_pair[1])

EpoCount == get_vecattr(epo_wv, word_pair[2])

\* the value returned is min / max of the two counts
IsMinOverMax ==
    /\ Max(IdoCount, EpoCount) > 0
    /\ returned.num * Max(IdoCount, EpoCount) = Min(IdoCount, EpoCount) * returned.den

\* the value returned lies in (0, 1] and is 1.0 exactly for equal counts
InUnitInterval ==
    /\ 0 < returned.num
    /\ returned.num <= returned.den
    /\ returned.num = returned.den <=> IdoCount = EpoCount

\* the call with the two terms and the two models exchanged returns the same value
Symmetric ==
    LET other == FrequencyRatio(word_pair[2], word_pair[1], epo_wv, ido_wv)
    IN  other.error = "" /\ other.num * returned.den = returned.num * other.den

\* C18 (as stated): compute_frequency_ratio returns min/max of the two frequencies
\* for every pair of frequencies: symmetric, in (0,1], 1.0 exactly when the
\* frequencies are equal, 0.1 for 10 and 100.
C18_RatioInUnitInterval ==
    pc = "compute_frequency_ratio" => IsMinOverMax /\ InUnitInterval /\ Symmetric

\* C18 (amended): for two frequencies that are both positive compute_frequency_ratio
\* returns min/max: symmetric, in (0,1], 1.0 exactly when the frequencies are equal,
\* 0.1 for 10 and 100.  When one of the frequencies is 0, or both are, it returns 0.0.
C18_RatioOfPositiveCounts ==
    pc = "compute_frequency_ratio" =>
        /\ Symmetric
        /\ IF IdoCount > 0 /\ EpoCount > 0
           THEN IsMinOverMax /\ InUnitInterval
           ELSE returned.num = 0
        /\ (IdoCount = 10 /\ EpoCount = 100) => returned.num * 10 = returned.den

\* the frequencies 10 and 100 gave 0.1
C18_Witness ==
    /\ pc = "compute_frequency_ratio"
    /\ IdoCount = 10
    /\ EpoCount = 100
    /\ returned.num * 10 = returned.den

-----------------------------------------------------------------------------
(* The batch loops: find_translation_candidates of                         *)
(* 15_bert_crosslingual_alignment.py and find_nearest_neighbors of         *)
(* find_nearest_neighbors_bert.py.                                         *)

\* results[word] of one query row: np.argpartition(similarities[j], -top_k)[-top_k:],
\* sorted by np.argsort and reversed; equal keys in the order this build leaves them
NeighborsOfRow(j, emb, k, tie) ==
    LET top_indices == TopKCosine(ido_emb[j], emb, k, tie)
    IN  AsTuple([n \in 1..Len(top_indices) |->
            <<epo_words[top_indices[n]], Cosine(ido_emb[j], emb[top_indices[n]])>>])

RECURSIVE NeighborsLoop(_, _, _, _, _, _)
\* for j, word in enumerate(batch_words): rows j..batch_end of the batch
NeighborsLoop(results, j, batch_end, emb, k, tie) ==
    IF j > batch_end THEN results
    ELSE NeighborsLoop(DictSet(results, ido_words[j], NeighborsOfRow(j, emb, k, tie)),
                       j + 1, batch_end, emb, k, tie)

\* the target matrices handed to the two loops: every matrix of 0/1 rows
BatchTargets == [1..Len(epo_words) -> [1..EmbDim -> {0, 1}]]

\* either loop is entered; find_nearest_neighbors takes no threshold
BatchInit ==
    /\ FitIdle
    /\ ScoreIdle
    /\ PipeIdle
    /\ ValidateIdle
    /\ EvaluateIdle
    /\ SeedIdle
    /\ pc \in {"find_translation_candidates", "find_nearest_neighbors"}
    /\ epo_emb \in BatchTargets
    /\ threshold \in (IF pc = "find_nearest_neighbors" THEN {0} ELSE 1..MaxCoord)
    /\ top_k \in 1..MaxTopK
    /\ batch_size \in 1..MaxBatch
    /\ argsort_tie \in TieOrders(Len(epo_words))
    /\ i = 1
    /\ candidates = EmptyDict

\* One iteration of "for i in range(0, len(ido_vocab), batch_size)".  np.argpartition
\* raises ValueError for a top_k above the number of target rows.
NeighborsBatch ==
    /\ UNCHANGED <<fitVars, scoreVars, pipeVars>>
    /\ pc = "find_nearest_neighbors"
    /\ i <= Len(ido_words)
    /\ IF top_k > Len(epo_words)
       THEN /\ pc' = "ValueError"
            /\ UNCHANGED <<candidates, i>>
       ELSE /\ LET batch_end == Min(i + batch_size - 1, Len(ido_words))
               IN  candidates' = NeighborsLoop(candidates, i, batch_end, epo_emb, top_k,
                                               argsort_tie)
            /\ i' = i + batch_size
            /\ UNCHANGED pc
    /\ UNCHANGED <<epo_emb, threshold, top_k, batch_size, argsort_tie, validateVars,
                   evaluateVars, seedVars>>

\* After the loop: "return results".
NeighborsReturn ==
    /\ UNCHANGED <<fitVars, scoreVars, pipeVars>>
    /\ pc = "find_nearest_neighbors"
    /\ i > Len(ido_words)
    /\ pc' = "results"
    /\ UNCHANGED <<argsort_tie, candidates, retrieveVars, validateVars, evaluateVars,
                   seedVars>>

BatchNext == FindBatch \/ FinishRetrieval \/ NeighborsBatch \/ NeighborsReturn

SpecBatch == BatchInit /\ [][BatchNext]_vars

-----------------------------------------------------------------------------
(* Claims about the batch loops.                                           *)

\* the loop that runs is the one of find_nearest_neighbors
NeighborsRun == pc \in {"find_nearest_neighbors", "results", "ValueError"}

\* the first rows of the batches of "range(0, n, size)", 1-indexed
BatchStarts(size) == {s \in 1..Len(ido_words) : (s - 1) % size = 0}

\* the rows of the batch that starts at s
BatchRows(s, size) == s..Min(s + size - 1, Len(ido_words))

\* the loop body of the running routine for the batch of rows first..last
BatchOf(results, first, last) ==
    IF NeighborsRun
    THEN NeighborsLoop(results, first, last, epo_emb, top_k, argsort_tie)
    ELSE BatchLoop(results, first, last, epo_emb, threshold, top_k, argsort_tie)

RECURSIVE Batched(_, _, _)
\* the whole loop with another batch size
Batched(results, s, size) ==
    IF s > Len(ido_words) THEN results
    ELSE Batched(BatchOf(results, s, Min(s + size - 1, Len(ido_words))), s + size, size)

RECURSIVE RowsInOrder(_, _, _)
\* the rows handled one at a time in the order given: every order of the batches, and
\* every interleaving of their rows, is one of these
RowsInOrder(results, order, n) ==
    IF n > Len(order) THEN results
    ELSE RowsInOrder(BatchOf(results, order[n], order[n]), order, n + 1)

\* the entry of a query row, computed from that row alone
EntryOfRow(j) ==
    IF NeighborsRun THEN NeighborsOfRow(j, epo_emb, top_k, argsort_tie)
    ELSE Translations(SimilarityRow(ido_emb[j], epo_emb), threshold, top_k, argsort_tie)

\* the query rows that get an entry
RowsWithEntry == {j \in RowsDone : NeighborsRun \/ Qualifying(j) # {}}

UniqueQueryTerms == \A a, b \in 1..Len(ido_words) : a # b => ido_words[a] # ido_words[b]

\* C20: for unique query terms the mapping holds, at any time, for every row of a
\* finished batch the entry computed from that row alone and nothing else, so a
\* batch writes only the entries of its own rows; every row is in exactly one batch
\* of at most batch_size rows; and the mapping of the finished loop is the one every
\* batch_size >= 1 and every order or interleaving of the rows gives.
C20_BatchIndependent ==
    (UniqueQueryTerms /\ pc # "ValueError") =>
        /\ (i - 1) % batch_size = 0
        /\ RowsDone = UNION {BatchRows(s, batch_size) : s \in {b \in BatchStarts(batch_size) : b < i}}
        /\ \A j \in 1..Len(ido_words) :
              Cardinality({s \in BatchStarts(batch_size) : j \in BatchRows(s, batch_size)}) = 1
        /\ \A s \in BatchStarts(batch_size) : Cardinality(BatchRows(s, batch_size)) <= batch_size
        /\ DOMAIN candidates = {ido_words[j] : j \in RowsWithEntry}
        /\ \A j \in RowsWithEntry : candidates[ido_words[j]] = EntryOfRow(j)
        /\ i > Len(ido_words) =>
              /\ \A size \in 1..(Len(ido_words) + 1) : candidates = Batched(EmptyDict, 1, size)
              /\ \A order \in TieOrders(Len(ido_words)) :
                    candidates = RowsInOrder(EmptyDict, order, 1)

\* C20 witness: a loop of two batches, of two rows and of one row, has finished
\* and left entries written by both batches
C20_Witness ==
    /\ pc \in {"returned", "results"}
    /\ batch_size = 2
    /\ Cardinality(BatchStarts(batch_size)) = 2
    /\ ido_words[1] \in DOMAIN candidates
    /\ ido_words[Len(ido_words)] \in DOMAIN candidates
    /\ candidates[ido_words[1]] # candidates[ido_words[Len(ido_words)]]

-----------------------------------------------------------------------------
(* The scripts' main functions: 15_bert_crosslingual_alignment.py,         *)
(* 06_find_candidates.py and 07_validate_candidates.py.  The data handed   *)
(* from step to step is reduced to what decides the control flow: whether  *)
(* the seed list and the candidates dict are empty.                        *)

BertScript == "15_bert_crosslingual_alignment.py"

FindScript == "06_find_candidates.py"

ValidateScript == "07_validate_candidates.py"

\* the files main reads: args.ido_embeddings, args.bert_model, args.epo_vocab,
\* args.epo_model and the embeddings a former run extracted
BertInputs ==
    {"ido_embeddings", "bert_model", "epo_vocab", "epo_model", "esperanto_bert_embeddings.npz"}

FindInputs ==
    {"seed_dictionary.txt", "ido_fasttext.model", "epo_fasttext.model", "alignment_matrix.npy"}

ValidateInputs ==
    {"candidate_translations.json", "ido_fasttext.model", "epo_fasttext.model",
     "alignment_matrix.npy"}

InputsOf(name) ==
    IF name = BertScript THEN BertInputs
    ELSE IF name = FindScript THEN FindInputs ELSE ValidateInputs

\* what create_seed_dictionary may return: no pair, or a pair of identical words
PipelineSeedLists == {<<>>, <<<<"hundo", "hundo">>>>}

\* what find_translation_candidates may return
BertCandidates ==
    {EmptyDict, [w \in {"hundo"} |-> <<[epo |-> "hundo", similarity |-> 1]>>]}

\* what process_all_candidates may return, and candidate_translations.json may hold
FastTextCandidates ==
    {EmptyDict, [w \in {"hundo"} |-> <<[translation |-> "hundo", similarity |-> 1]>>]}

PipelineInit ==
    /\ FitIdle
    /\ ScoreIdle
    /\ RetrieveIdle
    /\ ValidateIdle
    /\ EvaluateIdle
    /\ SeedIdle
    /\ argsort_tie = <<>>
    /\ candidates = EmptyDict
    /\ pc = "main"
    /\ script \in {BertScript, FindScript, ValidateScript}
    /\ files \in SUBSET InputsOf(script)
    /\ skip_epo_extraction \in (IF script = BertScript THEN BOOLEAN ELSE {FALSE})
    /\ stages = <<>>
    /\ sources = <<>>
    /\ merged = EmptyDict

\* everything a main function leaves alone
pipeOthers == <<argsort_tie, retrieveVars, validateVars, seedVars, scoreVars, script, files,
                skip_epo_extraction, mergeVars, routine, ido_space, epo_space, ido_before, epo_before,
                ido_aligned, epo_aligned, iterations, iteration, initial_sim>>

\* Step 1: load_ido_embeddings; np.load raises for a missing file
BertLoadIdo ==
    /\ script = BertScript
    /\ pc = "main"
    /\ stages' = Append(stages, "Load")
    /\ pc' = IF "ido_embeddings" \in files THEN "step2" ELSE "FileNotFoundError"
    /\ UNCHANGED <<candidates, seed_pairs, metrics, saved, pipeOthers>>

\* Step 2: the Esperanto embeddings are loaded, or extracted with the BERT model
\* (from_pretrained raises OSError, load_esperanto_vocab ValueError) and saved
BertLoadEpo ==
    /\ script = BertScript
    /\ pc = "step2"
    /\ IF skip_epo_extraction /\ "esperanto_bert_embeddings.npz" \in files
       THEN /\ pc' = "step3"
            /\ UNCHANGED saved
       ELSE IF "bert_model" \notin files
       THEN /\ pc' = "OSError"
            /\ UNCHANGED saved
       ELSE IF "epo_vocab" \notin files /\ "epo_model" \notin files
       THEN /\ pc' = "ValueError"
            /\ UNCHANGED saved
       ELSE /\ pc' = "step3"
            /\ saved' = saved \cup {"esperanto_bert_embeddings.npz"}
    /\ UNCHANGED <<candidates, seed_pairs, metrics, stages, pipeOthers>>

\* Step 3: create_seed_dictionary, and seed_dictionary.txt written
BertSeedDictionary ==
    /\ script = BertScript
    /\ pc = "step3"
    /\ stages' = Append(stages, "BuildSeedMatrices")
    /\ seed_pairs' \in PipelineSeedLists
    /\ saved' = saved \cup {"seed_dictionary.txt"}
    /\ pc' = "step4"
    /\ UNCHANGED <<candidates, metrics, pipeOthers>>

\* Step 4: align_embeddings_procrustes (ValueError for an empty seed list), then
\* the three np.save
BertAlign ==
    /\ script = BertScript
    /\ pc = "step4"
    /\ stages' = Append(stages, "FitAlignment")
    /\ IF seed_pairs = <<>>
       THEN /\ pc' = "ValueError"
            /\ UNCHANGED saved
       ELSE /\ pc' = "step5"
            /\ saved' = saved \cup AlignedFiles
    /\ UNCHANGED <<candidates, seed_pairs, metrics, pipeOthers>>

\* Step 5: find_translation_candidates; its summary divides by len(candidates)
BertRetrieve ==
    /\ script = BertScript
    /\ pc = "step5"
    /\ stages' = Append(stages, "Retrieve")
    /\ candidates' \in BertCandidates
    /\ pc' = IF candidates' = EmptyDict THEN "ZeroDivisionError" ELSE "step6"
    /\ UNCHANGED <<seed_pairs, metrics, saved, pipeOthers>>

\* Step 6: evaluate_sample
BertEvaluate ==
    /\ script = BertScript
    /\ pc = "step6"
    /\ stages' = Append(stages, "Evaluate")
    /\ metrics' = evaluate_sample(candidates, seed_pairs)
    /\ pc' = "step7"
    /\ UNCHANGED <<candidates, seed_pairs, saved, pipeOthers>>

\* Step 7: translation_candidates.json and alignment_stats.json
BertExport ==
    /\ script = BertScript
    /\ pc = "step7"
    /\ stages' = Append(stages, "Export")
    /\ saved' = saved \cup {"translation_candidates.json", "alignment_stats.json"}
    /\ pc' = "done"
    /\ UNCHANGED <<candidates, seed_pairs, metrics, pipeOthers>>

\* 06 main: "if not all([... .exists()]): logger.error(...); return"
FindMainCheck ==
    /\ script = FindScript
    /\ pc = "main"
    /\ pc' = IF FindInputs \subseteq files THEN "load" ELSE "returned"
    /\ UNCHANGED <<candidates, seed_pairs, metrics, saved, stages, pipeOthers>>

\* 06 main: the models, the alignment matrix, the seed words, the candidate words
FindMainLoad ==
    /\ script = FindScript
    /\ pc = "load"
    /\ stages' = Append(stages, "Load")
    /\ pc' = "process_all_candidates"
    /\ UNCHANGED <<candidates, seed_pairs, metrics, saved, pipeOthers>>

\* 06 main: process_all_candidates
FindMainRetrieve ==
    /\ script = FindScript
    /\ pc = "process_all_candidates"
    /\ stages' = Append(stages, "Retrieve")
    /\ candidates' \in FastTextCandidates
    /\ pc' = "save"
    /\ UNCHANGED <<seed_pairs, metrics, saved, pipeOthers>>

\* 06 main: json.dump(candidates) to candidate_translations.json
FindMainSave ==
    /\ script = FindScript
    /\ pc = "save"
    /\ stages' = Append(stages, "Export")
    /\ saved' = saved \cup {"candidate_translations.json"}
    /\ pc' = "done"
    /\ UNCHANGED <<candidates, seed_pairs, metrics, pipeOthers>>

\* 07 main: "if not candidates_path.exists(): logger.error(...); return"
ValidateMainCheck ==
    /\ script = ValidateScript
    /\ pc = "main"
    /\ pc' = IF "candidate_translations.json" \in files THEN "load" ELSE "returned"
    /\ UNCHANGED <<candidates, seed_pairs, metrics, saved, stages, pipeOthers>>

\* 07 main: FastText.load and np.load raise for a missing file; load_candidates
ValidateMainLoad ==
    /\ script = ValidateScript
    /\ pc = "load"
    /\ stages' = Append(stages, "Load")
    /\ IF ValidateInputs \subseteq files
       THEN /\ candidates' \in FastTextCandidates
            /\ pc' = "filter_candidates"
       ELSE /\ pc' = "FileNotFoundError"
            /\ UNCHANGED candidates
    /\ UNCHANGED <<seed_pairs, metrics, saved, pipeOthers>>

\* 07 main: filter_candidates validates and classifies each candidate in one pass;
\* compute_frequency_ratio raises KeyError for a term missing from its model
ValidateMainFilter ==
    /\ script = ValidateScript
    /\ pc = "filter_candidates"
    /\ stages' = stages \o <<"Validate", "Classify">>
    /\ \/ pc' = "save"
       \/ candidates # EmptyDict /\ pc' = "KeyError"
    /\ UNCHANGED <<candidates, seed_pairs, metrics, saved, pipeOthers>>

\* 07 main: the two tiers and the statistics are written
ValidateMainSave ==
    /\ script = ValidateScript
    /\ pc = "save"
    /\ stages' = Append(stages, "Export")
    /\ saved' = saved \cup {"high_confidence_translations.json",
                            "medium_confidence_translations.json", "validation_stats.json"}
    /\ pc' = "done"
    /\ UNCHANGED <<candidates, seed_pairs, metrics, pipeOthers>>

PipelineNext ==
    \/ BertLoadIdo
    \/ BertLoadEpo
    \/ BertSeedDictionary
    \/ BertAlign
    \/ BertRetrieve
    \/ BertEvaluate
    \/ BertExport
    \/ FindMainCheck
    \/ FindMainLoad
    \/ FindMainRetrieve
    \/ FindMainSave
    \/ ValidateMainCheck
    \/ ValidateMainLoad
    \/ ValidateMainFilter
    \/ ValidateMainSave

\* a main function that can take a step takes it
SpecPipeline == PipelineInit /\ [][PipelineNext]_vars /\ WF_vars(PipelineNext)

-----------------------------------------------------------------------------
(* Claims about the pipeline.                                              *)

StageOrder ==
    <<"Load", "BuildSeedMatrices", "FitAlignment", "Retrieve", "Validate", "Classify",
      "Evaluate", "Export">>

StageIndex(stage) == CHOOSE n \in 1..Len(StageOrder) : StageOrder[n] = stage

\* the stages entered so far follow the fixed order, none twice
StagesInOrder ==
    \A a, b \in 1..Len(stages) : a < b => StageIndex(stages[a]) < StageIndex(stages[b])

\* retrieval has not started unless fitting has finished: in this run, or in the
\* run that left the alignment matrix
RetrieveAfterFit ==
    "Retrieve" \in Range(stages) =>
        IF script = BertScript
        THEN "FitAlignment" \in Range(stages) /\ AlignedFiles \subseteq saved
        ELSE "alignment_matrix.npy" \in files

\* validation and classification have not started unless the candidates exist
ValidateAfterRetrieve ==
    ({"Validate", "Classify"} \cap Range(stages) # {}) =>
        "candidate_translations.json" \in files

\* nothing was written by a stage that lacked an input
NoOutputWithoutInputs ==
    /\ (script = FindScript /\ saved # {}) => FindInputs \subseteq files
    /\ (script = ValidateScript /\ saved # {}) => ValidateInputs \subseteq files
    /\ script = BertScript =>
          /\ "esperanto_bert_embeddings.npz" \in saved =>
                "bert_model" \in files /\ {"epo_vocab", "epo_model"} \cap files # {}
          /\ saved # {} => "ido_embeddings" \in files
          /\ AlignedFiles \cap saved # {} => seed_pairs # <<>>
          /\ "translation_candidates.json" \in saved => "Retrieve" \in Range(stages)

\* main has returned: after its last step, or at once because an input file is missing
Returned == pc \in {"done", "returned"}

\* main was stopped by an exception
Raised == pc \in {"FileNotFoundError", "OSError", "ValueError", "ZeroDivisionError", "KeyError"}

\* the safety half of C19: order of the stages, retrieval after fitting, validation
\* and classification after retrieval, no output of a stage without its inputs
PipelineOrdered ==
    StagesInOrder /\ RetrieveAfterFit /\ ValidateAfterRetrieve /\ NoOutputWithoutInputs

\* no run goes on for ever: main returns or is stopped by an exception
PipelineStops == <>(Returned \/ Raised)

\* a run whose input files are all present and whose seed list is not empty
\* is stopped by an exception
PipelineAborted ==
    /\ InputsOf(script) \subseteq files
    /\ script = BertScript => seed_pairs # <<>>
    /\ pc \in {"ZeroDivisionError", "KeyError"}

\* C19: a run goes through the stages in the fixed order Load, BuildSeedMatrices,
\* FitAlignment, Retrieve, Validate, Classify, Evaluate, Export, each at most once;
\* retrieval never starts before fitting has finished, validation and
\* classification never before the candidates exist; a stage whose inputs are
\* missing writes no output; and every run reaches its end: main returns, or stops
\* with the error raised for a missing input file or an empty seed list.
C19_OrderedRunsEnd ==
    /\ []PipelineOrdered
    /\ <>(Returned \/ (Raised /\ ~PipelineAborted))

-----------------------------------------------------------------------------
(* Procrustes fitting and the places where the fitted matrix is applied:   *)
(* learn_procrustes_alignment and evaluate_alignment of                    *)
(* 05_align_embeddings.py, find_nearest_neighbors of 06_find_candidates.py,*)
(* align_embeddings_procrustes and find_translation_candidates of          *)
(* 15_bert_crosslingual_alignment.py.  The seed rows are unit vectors      *)
(* along the axes, so that the fitted matrix has integer entries.          *)

\* the d x d identity
IdentityOf(d) == AsTuple([r \in 1..d |-> AsTuple([c \in 1..d |-> IF r = c THEN 1 ELSE 0])])

\* the orthogonal matrices with integer entries: one 1 or -1 in every row and column
SignedPermutations(d) ==
    {AsTuple([r \in 1..d |-> AsTuple([c \in 1..d |-> IF p[r] = c THEN s[r] ELSE 0])]) :
        p \in TieOrders(d), s \in [1..d -> {-1, 1}]}

\* determinant of a matrix of up to three rows
Det(A) ==
    IF Len(A) = 1 THEN A[1][1]
    ELSE IF Len(A) = 2 THEN A[1][1] * A[2][2] - A[1][2] * A[2][1]
    ELSE   A[1][1] * (A[2][2] * A[3][3] - A[2][3] * A[3][2])
         - A[1][2] * (A[2][1] * A[3][3] - A[2][3] * A[3][1])
         + A[1][3] * (A[2][1] * A[3][2] - A[2][2] * A[3][1])

\* the rows and columns of A numbered in S
Principal(A, S) ==
    LET idx == CHOOSE q \in [1..Cardinality(S) -> S] :
                   \A a, b \in 1..Cardinality(S) : a < b => q[a] < q[b]
    IN  [r \in 1..Cardinality(S) |-> [c \in 1..Cardinality(S) |-> A[idx[r]][idx[c]]]]

\* A is symmetric with no negative principal minor
SymmetricPSD(A) ==
    /\ \A r, c \in 1..Len(A) : A[r][c] = A[c][r]
    /\ \A S \in (SUBSET (1..Len(A))) \ {{}} : Det(Principal(A, S)) >= 0

\* the matrix whose SVD scipy takes: B.T.dot(A).T, that is X^T Y
CrossCovariance(X, Y) == MatMul(Transpose(X), Y)

\* the orthogonal W minimising ||X W - Y||: those for which W^T (X^T Y) is symmetric
\* positive semidefinite (the polar factor), among the integer ones
Minimisers(X, Y) ==
    LET M == CrossCovariance(X, Y)
    IN  {W \in SignedPermutations(Len(M)) : SymmetricPSD(MatMul(Transpose(W), M))}

\* a diagonal matrix of non-negative entries in descending order
SortedDiagonal(M) ==
    /\ \A r, c \in 1..Len(M) : r # c => M[r][c] = 0
    /\ \A r \in 1..Len(M) : M[r][r] >= 0
    /\ \A r \in 1..(Len(M) - 1) : M[r][r] >= M[r + 1][r + 1]

\* the fit with the product of the SVD factors forgotten: X^T Y itself
orthogonal_procrustes_covariance(X, Y) == {CrossCovariance(X, Y)}

\* any minimiser, also for a matrix LAPACK leaves as it is
orthogonal_procrustes_any(X, Y) == Minimisers(X, Y)

\* scipy.linalg.orthogonal_procrustes(X, Y)[0]: u.dot(vt) of the SVD of X^T Y, a
\* minimiser of ||X W - Y||; where X^T Y has a zero singular value the signs of its
\* singular vectors are LAPACK's choice, except that a sorted non-negative diagonal
\* matrix needs no rotation and comes back with u = vt = I
orthogonal_procrustes(X, Y) ==
    IF SortedDiagonal(CrossCovariance(X, Y))
    THEN {IdentityOf(Len(CrossCovariance(X, Y)))}
    ELSE Minimisers(X, Y)

ProcrustesRows == {<<1, 0>>, <<0, 1>>, <<-1, 0>>, <<0, -1>>}

\* hundo = [1,0,0] and kato = [0,1,0] in both spaces
ToyRows == <<<<1, 0, 0>>, <<0, 1, 0>>>>

\* the paired seed matrices (X, Y): the toy rows, and every pair of matrices of unit
\* rows whose fitted matrix has integer entries
PairedMatrices ==
    {<<ToyRows, ToyRows>>} \cup
    {xy \in UNION {[1..n -> ProcrustesRows] \X [1..n -> ProcrustesRows] :
                      n \in 1..NumSeedPairs} :
        orthogonal_procrustes(xy[1], xy[2]) # {}}

\* the vocabulary of both spaces: one term per seed row
ProcrustesWords == SubSeq(ido_words, 1, Len(X_pairs))

\* a FastText model whose rows are those of the matrix
ModelOf(matrix) ==
    [index_to_key |-> ProcrustesWords, vectors |-> matrix,
     count |-> [r \in 1..Len(matrix) |-> DefaultMinFreq], char_ngrams |-> FALSE]

ProcrustesInit ==
    /\ FitIdle
    /\ ScoreIdle
    /\ PipeIdle
    /\ ValidateIdle
    /\ pc = "procrustes"
    /\ \E xy \in PairedMatrices :
          /\ X_pairs = xy[1]
          /\ Y_pairs = xy[2]
    /\ seed_pairs = [r \in 1..Len(X_pairs) |-> <<ido_words[r], ido_words[r]>>]
    /\ argsort_tie \in TieChoices(Len(X_pairs))
    /\ candidates = EmptyDict
    /\ metrics = EmptyDict
    /\ char_ngrams = FALSE
    /\ filtered_pairs = <<>>
    /\ stats = EmptyDict
    /\ epo_emb = <<>>
    /\ threshold = DefaultThreshold
    /\ top_k \in 1..MaxTopK
    /\ batch_size = 0
    /\ i = 0

\* what the Procrustes routines leave alone
procOthers == <<argsort_tie, retrieveVars, check_mutual, min_similarity, val_pos, high_conf,
                medium_conf, low_conf, seed_pairs, seedVars, ido_space, epo_space,
                ido_before, epo_before, iterations, iteration, initial_sim, saved,
                ido_wv, epo_wv, word_pair, k_arg, pipeVars>>

\* learn_procrustes_alignment of 05_align_embeddings.py
LearnProcrustesAlignment ==
    /\ pc = "procrustes"
    /\ routine' = "learn_procrustes_alignment"
    /\ alignment_matrix' \in orthogonal_procrustes(X_pairs, Y_pairs)
    /\ pc' = "evaluate_alignment"
    /\ UNCHANGED <<procOthers, candidates, metrics, ido_aligned, epo_aligned, returned>>

\* evaluate_alignment of 05_align_embeddings.py: X_aligned = (W @ X_src.T).T, then
\* the metrics
EvaluateFitted ==
    /\ pc = "evaluate_alignment"
    /\ ido_aligned' = AsTuple([r \in 1..Len(X_pairs) |-> MatVec(alignment_matrix, X_pairs[r])])
    /\ metrics' = evaluate_alignment(alignment_matrix, X_pairs, Y_pairs, seed_pairs)
    /\ pc' = "evaluated"
    /\ UNCHANGED <<procOthers, candidates, routine, alignment_matrix, epo_aligned, returned>>

\* find_nearest_neighbors of 06_find_candidates.py with the matrix 05 saved, for
\* every term: v_aligned = (alignment_matrix @ v_ido.T).T, then the k nearest
FindNeighborsFitted ==
    /\ pc = "evaluated"
    /\ routine' = "find_nearest_neighbors"
    /\ ido_aligned' = AsTuple([r \in 1..Len(X_pairs) |-> MatVec(alignment_matrix, X_pairs[r])])
    /\ returned' = AsTuple([r \in 1..Len(X_pairs) |->
                       find_nearest_neighbors(ProcrustesWords[r], ModelOf(X_pairs),
                           ModelOf(Y_pairs), alignment_matrix, top_k, argsort_tie)])
    /\ pc' = "neighbors"
    /\ UNCHANGED <<procOthers, candidates, metrics, alignment_matrix, epo_aligned>>

\* align_embeddings_procrustes of 15_bert_crosslingual_alignment.py, lines 197-206:
\* the fit, ido_emb @ W, and the normalisation, which leaves rows of length 1 as
\* they are
AlignFitted ==
    /\ pc = "procrustes"
    /\ routine' = "align_embeddings_procrustes"
    /\ alignment_matrix' \in orthogonal_procrustes(X_pairs, Y_pairs)
    /\ ido_aligned' = MatMul(X_pairs, alignment_matrix')
    /\ epo_aligned' = Y_pairs
    /\ pc' = "aligned"
    /\ UNCHANGED <<procOthers, candidates, metrics, returned>>

\* find_translation_candidates on the aligned spaces (main, lines 416-421); the
\* summary of line 274 divides by len(candidates)
RetrieveFitted ==
    /\ pc = "aligned"
    /\ LET thr == (threshold + CosDen - 1) \div CosDen
           found == {j \in 1..Len(ido_aligned) :
                        Len(WhereAtLeast(SimilarityRow(ido_aligned[j], epo_aligned), thr)) > 0}
       IN  /\ candidates' = [w \in {ProcrustesWords[j] : j \in found} |->
                   TranslationsOfRow(CHOOSE j \in found : ProcrustesWords[j] = w,
                       ido_aligned, epo_aligned, ProcrustesWords, thr, top_k, argsort_tie)]
           /\ pc' = IF found = {} THEN "ZeroDivisionError" ELSE "retrieved"
    /\ UNCHANGED <<procOthers, metrics, routine, alignment_matrix, ido_aligned, epo_aligned,
                   returned>>

ProcrustesNext ==
    \/ LearnProcrustesAlignment
    \/ EvaluateFitted
    \/ FindNeighborsFitted
    \/ AlignFitted
    \/ RetrieveFitted

SpecProcrustes == ProcrustesInit /\ [][ProcrustesNext]_vars

\* the seed targets are the seed sources turned by an orthogonal matrix P
ExactSeedSet ==
    \E P \in SignedPermutations(Len(X_pairs[1])) : MatMul(X_pairs, P) = Y_pairs

\* a routine has applied the fitted matrix to the source rows
FittedApplied == pc \in {"evaluated", "neighbors", "aligned", "retrieved"}

\* C21: wherever the fitted Procrustes matrix W is applied to the source vectors,
\* in the alignment diagnostic and in retrieval, the aligned vector is v W, and for
\* a seed set with Y = X P for an orthogonal P the aligned seed rows are the target
\* rows
C21_AlignedIsVTimesW ==
    FittedApplied =>
        /\ ido_aligned = MatMul(X_pairs, alignment_matrix)
        /\ ExactSeedSet => ido_aligned = Y_pairs

\* a matrix has been fitted
Fitted == alignment_matrix # <<>>

ToyScenario ==
    /\ X_pairs = ToyRows
    /\ Y_pairs = ToyRows
    /\ seed_pairs = <<<<"hundo", "hundo">>, <<"kato", "kato">>>>

-----------------------------------------------------------------------------
(* merge_all_translations of merge_translations.py.  A source is a dict    *)
(* from Ido words to lists of translation records; the outer loop takes    *)
(* the sources in order.                                                   *)

MergeWords == {"hundo", "kato"}

\* the name each source gives in the 'source' field of its records
SourceNames == <<"bert", "vortaro">>

\* the records source number n can hold
RecordsOf(n) ==
    {[translation |-> t, similarity |-> DefaultThreshold, source |-> SourceNames[n]] :
        t \in {"hundo", "kato"}}

\* the lists of up to NumTranslations records of source n, duplicates included
ListsOf(n) == UNION {[1..len -> RecordsOf(n)] : len \in 0..NumTranslations}

\* the dicts source n can be: some of the words, each with a list
SourceDicts(n) == UNION {[ws -> ListsOf(n)] : ws \in SUBSET MergeWords}

\* lines 31-36
InitialStats ==
    [total_words |-> 0, words_with_multiple_sources |-> 0, total_translations |-> 0,
     sources |-> {}]

MergeInit ==
    /\ FitIdle
    /\ ScoreIdle
    /\ RetrieveIdle
    /\ ValidateIdle
    /\ EvaluateIdle
    /\ char_ngrams = FALSE
    /\ X_pairs = <<>>
    /\ Y_pairs = <<>>
    /\ filtered_pairs = <<>>
    /\ script = ""
    /\ stages = <<>>
    /\ files = {}
    /\ skip_epo_extraction = FALSE
    /\ argsort_tie = <<>>
    /\ candidates = EmptyDict
    /\ pc = "merge_all_translations"
    /\ sources \in {<<first, second>> : first \in SourceDicts(1), second \in SourceDicts(2)}
    /\ merged = EmptyDict
    /\ stats = InitialStats

\* the list with the translations of one source that it does not hold yet
ExtendNew(list, translations) ==
    list \o SelectSeq(translations,
                LAMBDA t : \A n \in 1..Len(list) : list[n].translation # t.translation)

\* lines 45-46: merged[ido_word].append(trans) for every trans of the list
Extend(list, translations) == list \o translations

\* merged[ido_word] of the defaultdict
MergedList(d, ido_word) == IF ido_word \in DOMAIN d THEN d[ido_word] ELSE <<>>

\* the words of a source dict that line 41 does not skip
NonEmptyWords(source_dict) == {w \in DOMAIN source_dict : Len(source_dict[w]) > 0}

\* one turn of the loop of line 39: every item of source_dict
MergeSource ==
    /\ pc = "merge_all_translations"
    /\ i < Len(sources)
    /\ LET source_dict == sources[i + 1]
           words == NonEmptyWords(source_dict)
           added == [w \in words |-> Len(source_dict[w])]
       IN  /\ merged' = [w \in DOMAIN merged \cup words |->
                   IF w \in words THEN Extend(MergedList(merged, w), source_dict[w])
                   ELSE merged[w]]
           /\ stats' = [stats EXCEPT
                   !.sources = @ \cup UNION {{source_dict[w][n].source :
                                                 n \in 1..Len(source_dict[w])} : w \in words},
                   !.total_translations = @ + SumOver(added, words)]
    /\ i' = i + 1
    /\ UNCHANGED <<pc, argsort_tie, candidates, epo_emb, threshold, top_k, batch_size,
                   validateVars, evaluateVars, char_ngrams, X_pairs, Y_pairs, filtered_pairs,
                   fitVars, scoreVars, script, stages, files, skip_epo_extraction, sources>>

\* lines 50-63: the result in sorted key order, the words with several sources, the
\* number of words
MergeReturn ==
    /\ pc = "merge_all_translations"
    /\ i = Len(sources)
    /\ LET several == {w \in DOMAIN merged :
                          Cardinality({merged[w][n].source : n \in 1..Len(merged[w])}) > 1}
       IN  stats' = [stats EXCEPT !.words_with_multiple_sources = Cardinality(several),
                                  !.total_words = Cardinality(DOMAIN merged)]
    /\ returned' = <<merged, stats'>>
    /\ pc' = "merged"
    /\ UNCHANGED <<argsort_tie, candidates, retrieveVars, validateVars, evaluateVars,
                   char_ngrams, X_pairs, Y_pairs, filtered_pairs, fitVars, ido_wv, epo_wv,
                   word_pair, k_arg, pipeVars>>

MergeNext == MergeSource \/ MergeReturn

SpecMerge == MergeInit /\ [][MergeNext]_vars

RECURSIVE ListsFrom(_, _)
\* the lists of the word in source n, n + 1, ..., one after the other
ListsFrom(w, n) ==
    IF n > Len(sources) THEN <<>>
    ELSE MergedList(sources[n], w) \o ListsFrom(w, n + 1)

\* the length of the word's list in each source
LengthsOf(w) == [n \in 1..Len(sources) |-> Len(MergedList(sources[n], w))]

\* the number of entries the word has over all sources
EntriesOf(w) == SumOver(LengthsOf(w), 1..Len(sources))

\* C24: merge_all_translations keeps every translation of every source: the merged
\* list of a word has as many entries as the word's lists have over all sources, in
\* source order; the merged keys are the words with a non-empty list in some
\* source; total_translations is the number of entries and total_words the number
\* of merged keys
C24_MergeKeepsAll ==
    pc = "merged" =>
        LET result == returned[1]
            counted == returned[2]
        IN  /\ DOMAIN result = {w \in MergeWords : EntriesOf(w) > 0}
            /\ \A w \in DOMAIN result :
                  /\ Len(result[w]) = EntriesOf(w)
                  /\ result[w] = ListsFrom(w, 1)
            /\ counted.total_translations
                   = SumOver([w \in MergeWords |-> EntriesOf(w)], MergeWords)
            /\ counted.total_words = Cardinality(DOMAIN result)

\* a word that two sources translate by the same term, one of them twice over, and
\* a word only one source has
C24_Witness ==
    /\ pc = "merged"
    /\ "hundo" \in DOMAIN sources[1] /\ "hundo" \in DOMAIN sources[2]
    /\ Len(sources[1]["hundo"]) = 1
    /\ Len(sources[2]["hundo"]) = 2
    /\ \A n \in 1..3 : returned[1]["hundo"][n].translation = "hundo"
    /\ "kato" \in DOMAIN sources[1] /\ sources[1]["kato"] = <<>>
    /\ "kato" \notin DOMAIN returned[1]
    /\ returned[2].total_translations = 3

-----------------------------------------------------------------------------
(* The three stages of the core run one after the other on their own       *)
(* inputs: retrofit_embeddings, find_translation_candidates and            *)
(* filter_candidates.                                                      *)

CoreInit == FitInit \/ RetrieveInit \/ ValidateInit

CoreNext ==
    \/ RetrofitBegin
    \/ RetrofitUpdate
    \/ RetrofitNormalize
    \/ RetrofitReturn
    \/ RetrieveNext
    \/ ValidateNext

SpecCore == CoreInit /\ [][CoreNext]_vars

\* the stage that runs
Retrofitting == routine = "retrofit_embeddings"

Validating == pc \in {"filter_candidates", "KeyError", "returned"}

\* every record validation has put out is a candidate of its word, with the
\* candidate's term and similarity
OutputsAnnotateCandidates ==
    \A conf \in {high_conf, medium_conf, low_conf} : \A w \in DOMAIN conf :
        \A n \in 1..Len(conf[w]) :
            /\ w \in DOMAIN candidates
            /\ \E m \in 1..Len(candidates[w]) :
                  /\ candidates[w][m].translation = conf[w][n].translation
                  /\ candidates[w][m].similarity = conf[w][n].similarity

\* C25: no stage writes to its inputs: retrofitting leaves the caller's source and
\* target matrices as they are, retrieval leaves the matrices it searches as they
\* are, and validation leaves the candidate mapping as it is, its output records
\* carrying the candidates' terms and similarities
C25_InputsNotWritten ==
    [][/\ ido_space' = ido_space
       /\ epo_space' = epo_space
       /\ epo_emb' = epo_emb
       /\ Validating => candidates' = candidates /\ OutputsAnnotateCandidates'
      ]_vars

\* retrofitting has moved the rows of its copies, and returned
C25_Witness ==
    /\ Retrofitting
    /\ pc = "retrofitted"
    /\ iteration > 0
    /\ ido_aligned # ido_space
    /\ epo_aligned # epo_space

\* a candidate whose source term or target term is in no vocabulary of its model
VocabularyMiss(item) ==
    \/ ~InVocab(ido_model, item.ido_word)
    \/ ~InVocab(epo_model, item.trans.translation)

\* the candidate is in the output of validation with mutual_nn false
AnnotatedNotMutual(item) ==
    \E conf \in {high_conf, medium_conf, low_conf} :
        /\ item.ido_word \in DOMAIN conf
        /\ \E n \in 1..Len(conf[item.ido_word]) :
              /\ conf[item.ido_word][n].translation = item.trans.translation
              /\ conf[item.ido_word][n].mutual_nn = FALSE

\* C26: validation never halts on a vocabulary miss: filter_candidates raises
\* nothing, and a candidate whose source or target term is absent from its model
\* vocabulary is put out with mutual_nn false
C26_NoHaltOnVocabularyMiss ==
    /\ pc # "KeyError"
    /\ pc = "returned" =>
          \A n \in 1..Len(Iterations(candidates)) :
              LET item == Iterations(candidates)[n]
              IN  (VocabularyMiss(item)
                      /\ ~BelowMinimum(item.trans.similarity, min_similarity))
                  => AnnotatedNotMutual(item)

\* the after-alignment loop of align_embeddings_procrustes has run
DiagnosticRan == Fitted /\ pc \in {"returned", "IndexError"}

\* C27: in align_embeddings_procrustes the after-alignment diagnostic is taken over
\* the same pairs, in the same order, as the before-alignment one: row i of the
\* aligned source rows and row i of the normalised target rows are the two rows
\* of usable seed pair i, also when only one term of a pair is missing
C27_DiagnosticOverSamePairs ==
    DiagnosticRan =>
        /\ pc # "IndexError"
        /\ Len(SourceRows) = Len(UsablePairs)
        /\ Len(TargetRows) = Len(UsablePairs)
        /\ \A n \in 1..Len(UsablePairs) :
              /\ SourceRows[n][1] = UsablePairs[n][1]
              /\ TargetRows[n][2] = UsablePairs[n][2]

\* main of 05_align_embeddings.py has fitted W and called evaluate_alignment
AlignmentEvaluated == Fitted /\ pc \in {"returned", "IndexError"}

\* C28: evaluate_alignment evaluates exactly the rows of the paired seed matrices: it
\* reads only rows that exist and reports num_pairs equal to the number of usable
\* seed pairs, also for a seed list from which extract_embedding_matrices dropped
\* pairs with a missing term
C28_EvaluatesExistingRows ==
    AlignmentEvaluated =>
        /\ pc # "IndexError"
        /\ metrics.num_pairs = Len(UsablePairs)

\* the seed dictionary evaluate_on_seed_dictionary is handed
LoadedSeedDict == load_seed_dictionary(seed_pairs, 1, EmptySeedDict)

\* its source terms that were queried, in the order of the loop
EvaluatedWords == SelectSeq(LoadedSeedDict.keys, LAMBDA w : w \in DOMAIN candidates)

\* the smallest rank of an expected translation of w in its candidate list, 0 if
\* none is there
BestRank(w) ==
    LET predicted_words == PredictedWords(candidates[w])
        ranks == {IndexOf(predicted_words, e) :
                     e \in Range(LoadedSeedDict.get[w]) \cap Range(predicted_words)}
    IN  IF ranks = {} THEN 0 ELSE CHOOSE r \in ranks : \A q \in ranks : r <= q

\* the evaluated words whose best rank is at most k
BestWithin(k) ==
    Cardinality({n \in 1..Len(EvaluatedWords) :
                    BestRank(EvaluatedWords[n]) \in 1..k})

BestReciprocalRanks ==
    [n \in 1..Len(EvaluatedWords) |->
        IF BestRank(EvaluatedWords[n]) = 0 THEN [num |-> 0, den |-> 1]
        ELSE [num |-> 1, den |-> BestRank(EvaluatedWords[n])]]

\* evaluate_on_seed_dictionary has returned its metrics
SeedDictionaryEvaluated == pc = "returned" /\ "mrr" \in DOMAIN metrics

\* C29: for a source term with several expected translations,
\* evaluate_on_seed_dictionary takes the best (smallest) rank among the expected
\* translations present in the candidate list for the reciprocal rank and the
\* Precision@k counts, whatever the order of the expected translations
C29_BestRankOfExpected ==
    SeedDictionaryEvaluated =>
        /\ metrics.p_at_1 = Ratio(BestWithin(PrecisionAt[1]), Len(EvaluatedWords))
        /\ metrics.p_at_5 = Ratio(BestWithin(PrecisionAt[2]), Len(EvaluatedWords))
        /\ metrics.p_at_10 = Ratio(BestWithin(PrecisionAt[3]), Len(EvaluatedWords))
        /\ metrics.mrr.num * Mean(BestReciprocalRanks).den
               = Mean(BestReciprocalRanks).num * metrics.mrr.den

\* the candidates of the query, best cosine first
CosineRanking(tie) == ArgsortDescending(QueryCosines, tie)

\* C30: for one query, ranking the candidates by CSLS score gives the same order and
\* the same top-k set as ranking them by cosine similarity: the correction is one
\* constant for the query
C30_CslsRanksLikeCosine ==
    /\ pc = "csls" =>
          /\ \A a, b \in 1..Len(returned) :
                /\ returned[a].den = returned[b].den
                /\ returned[a].num < returned[b].num <=> QueryCosines[a] < QueryCosines[b]
                /\ returned[a].num - returned[b].num
                       = 2 * (returned[a].den \div CosDen) * (QueryCosines[a] - QueryCosines[b])
          /\ \A tie \in TieChoices(Len(returned)) : \A k \in 1..Len(returned) :
                TopKCsls(returned, k, tie) = Take(CosineRanking(tie), k)
    /\ pc = "find_candidates" =>
          \A n \in 1..Len(returned) :
              KeyIndex(epo_wv, returned[n].epo)
                  \in Range(Take(CosineRanking(argsort_tie), k_arg))

\* a query whose candidates have different cosines, scored with a neighbourhood
\* smaller than the vocabulary
C30_Witness ==
    /\ pc = "csls"
    /\ k_arg = 2
    /\ \E a, b \in 1..Len(returned) :
          /\ QueryCosines[a] < QueryCosines[b]
          /\ returned[a].num < returned[b].num
          /\ returned[b].num # QueryCosines[b] * (returned[b].den \div CosDen)

=============================================================================
